---- MODULE Spec2Model ----
(***************************************************************************)
(* Model of the clipboard core of lamco-rdp:                               *)
(*   - the loop detector (crates/lamco-clipboard-core/src/loop_detector.rs)*)
(*   - the format converter (crates/lamco-clipboard-core/src/formats.rs)   *)
(*                                                                         *)
(* Conventions.                                                            *)
(*   A byte is an integer in 0..255, a byte buffer a sequence of bytes.    *)
(*   Option<T> is a sequence of length 0 (None) or 1 (Some(x)).            *)
(*   An Instant is an integer number of milliseconds; a Duration likewise. *)
(*   SHA-256 is modelled as injective: the digest of a hasher is the byte  *)
(*   stream that was fed to it with update().                              *)
(***************************************************************************)
EXTENDS Integers, Sequences, FiniteSets, TLC

VARIABLES
    config,           \* LoopDetector.config : LoopDetectionConfig
    format_history,   \* LoopDetector.format_history : VecDeque<ClipboardOperation>
    content_history,  \* LoopDetector.content_history : VecDeque<ClipboardOperation>
    now,              \* the monotonic clock read by Instant::now()
    cleared,          \* history: clear() was called and no record_* call since
    last,             \* history: the most recent call, or the passage of time
    converter,        \* a FormatConverter
    input,            \* the argument of the most recent conversion
    output            \* the most recent conversion and what it returned

vars == <<config, format_history, content_history, now, cleared, last,
          converter, input, output>>

(***************************************************************************)
(* Bounds of the model.                                                    *)
(***************************************************************************)
\* the clock stops advancing at MaxTime
MaxTime == 3
\* the largest window_ms a configuration is drawn with
MaxWindow == 1

(***************************************************************************)
(* Option<T>                                                               *)
(***************************************************************************)
None == <<>>

Some(x) == <<x>>

(***************************************************************************)
(* formats.rs: clipboard format identifiers and ClipboardFormat            *)
(***************************************************************************)
CF_UNICODETEXT == 13

CF_TEXT == 1

CF_HTML == 53264

CF_DIB == 8

CF_WAVE == 12

CF_PNG == 53265

CF_JPEG == 53266

CF_GIF == 53267

CF_RTF == 53268

\* ClipboardFormat::new(id)
new(id) == [id |-> id, name |-> None]

\* ClipboardFormat::with_name(id, name)
with_name(id, name) == [id |-> id, name |-> Some(name)]

\* ClipboardFormat::unicode_text()
unicode_text == new(CF_UNICODETEXT)

\* "HTML Format" as bytes
HtmlFormatName == <<72, 84, 77, 76, 32, 70, 111, 114, 109, 97, 116>>

\* "FileGroupDescriptorW" as bytes
FileGroupDescriptorWName ==
    << 70, 105, 108, 101, 71, 114, 111, 117, 112, 68, 101, 115, 99, 114, 105, 112, 116, 111, 114, 87 >>

\* "FileContents" as bytes
FileContentsName == << 70, 105, 108, 101, 67, 111, 110, 116, 101, 110, 116, 115 >>

\* ClipboardFormat::html()
html == with_name(CF_HTML, HtmlFormatName)

\* ClipboardFormat::png()
png == with_name(CF_PNG, << 80, 78, 71 >>)

\* the arm of the match in mime_to_rdp_formats for one MIME type: the vector
\* after the arm has run on the vector formats
MimeArm(formats, mime) ==
    CASE mime \in {"text/plain", "text/plain;charset=utf-8", "UTF8_STRING", "STRING"} ->
             IF ~(\E i \in 1..Len(formats) : formats[i].id = CF_UNICODETEXT)
             THEN Append(formats, unicode_text) ELSE formats
      [] mime = "text/html" -> Append(formats, html)
      [] mime \in {"text/rtf", "application/rtf"} ->
             Append(formats, with_name(CF_RTF, << 82, 105, 99, 104, 32, 84, 101, 120, 116, 32, 70, 111, 114, 109, 97, 116 >>))
      [] mime = "image/png" ->
             LET pushed == Append(formats, png)
             IN  IF ~(\E i \in 1..Len(pushed) : pushed[i].id = CF_DIB)
                 THEN Append(pushed, new(CF_DIB)) ELSE pushed
      [] mime \in {"image/jpeg", "image/jpg"} ->
             LET pushed == Append(formats, with_name(CF_JPEG, << 74, 70, 73, 70 >>))
             IN  IF ~(\E i \in 1..Len(pushed) : pushed[i].id = CF_DIB)
                 THEN Append(pushed, new(CF_DIB)) ELSE pushed
      [] mime = "image/gif" -> Append(formats, with_name(CF_GIF, << 71, 73, 70 >>))
      [] mime \in {"image/bmp", "image/x-bmp"} -> Append(formats, new(CF_DIB))
      [] mime \in {"text/uri-list", "x-special/gnome-copied-files"} ->
             IF ~(\E i \in 1..Len(formats) :
                      formats[i].name = Some(FileGroupDescriptorWName))
             THEN formats \o << with_name(0, FileGroupDescriptorWName),
                                with_name(0, FileContentsName) >>
             ELSE formats
      [] mime \in {"audio/wav", "audio/x-wav"} -> Append(formats, new(CF_WAVE))
      [] OTHER -> formats

\* the for loop of mime_to_rdp_formats over mime_types[i..], from formats
RECURSIVE MimeLoop(_,_,_)
MimeLoop(formats, mime_types, i) ==
    IF i > Len(mime_types) THEN formats
    ELSE MimeLoop(MimeArm(formats, mime_types[i]), mime_types, i + 1)

\* mime_to_rdp_formats(mime_types: &[&str])
mime_to_rdp_formats(mime_types) == MimeLoop(<<>>, mime_types, 1)

\* u32::to_le_bytes
to_le_bytes(n) ==
    << n % 256, (n \div 256) % 256, (n \div 65536) % 256, (n \div 16777216) % 256 >>

(***************************************************************************)
(* Text encodings used by formats.rs.  A Rust &str / String is modelled by *)
(* its UTF-8 bytes; chars() is the sequence of its code points.            *)
(***************************************************************************)
IsCont(b) == b >= 128 /\ b <= 191

\* the first character of a byte buffer as core::str::from_utf8 accepts it:
\* [len |-> bytes used, cp |-> code point], len = 0 when the head is invalid
Utf8Next(b) ==
    LET n  == Len(b)
        b1 == b[1]
    IN  IF n = 0 THEN [len |-> 0, cp |-> 0]
        ELSE IF b1 < 128 THEN [len |-> 1, cp |-> b1]
        ELSE IF b1 >= 194 /\ b1 <= 223 /\ n >= 2 /\ IsCont(b[2])
             THEN [len |-> 2, cp |-> (b1 - 192) * 64 + (b[2] - 128)]
        ELSE IF b1 >= 224 /\ b1 <= 239 /\ n >= 3 /\ IsCont(b[2]) /\ IsCont(b[3])
                /\ (b1 = 224 => b[2] >= 160)
                /\ (b1 = 237 => b[2] <= 159)
             THEN [len |-> 3,
                   cp |-> (b1 - 224) * 4096 + (b[2] - 128) * 64 + (b[3] - 128)]
        ELSE IF b1 >= 240 /\ b1 <= 244 /\ n >= 4
                /\ IsCont(b[2]) /\ IsCont(b[3]) /\ IsCont(b[4])
                /\ (b1 = 240 => b[2] >= 144)
                /\ (b1 = 244 => b[2] <= 143)
             THEN [len |-> 4,
                   cp |-> (b1 - 240) * 262144 + (b[2] - 128) * 4096
                            + (b[3] - 128) * 64 + (b[4] - 128)]
        ELSE [len |-> 0, cp |-> 0]

\* the character that starts at byte i of b (1-based)
Utf8At(b, i) == Utf8Next(SubSeq(b, i, Len(b)))

\* the concatenation of the sequences ss[lo], ..., ss[hi]
RECURSIVE ConcatRange(_,_,_)
ConcatRange(ss, lo, hi) ==
    IF lo > hi THEN <<>>
    ELSE IF lo = hi THEN ss[lo]
    ELSE LET mid == (lo + hi) \div 2
         IN  ConcatRange(ss, lo, mid) \o ConcatRange(ss, mid + 1, hi)

Concat(ss) == ConcatRange(ss, 1, Len(ss))

\* std::str::from_utf8(data).is_ok(): every byte that is no continuation
\* byte starts a well-formed character, and every continuation byte belongs
\* to the character started by the nearest such byte before it
ValidUtf8(b) ==
    \A i \in 1..Len(b) :
        IF IsCont(b[i])
        THEN \E k \in 1..3 :
                /\ i - k >= 1
                /\ ~IsCont(b[i - k])
                /\ \A j \in 1..(k - 1) : IsCont(b[i - j])
                /\ Utf8At(b, i - k).len > k
        ELSE Utf8At(b, i).len > 0

\* str::chars() of a valid string
Chars(b) ==
    Concat([i \in 1..Len(b) |->
               IF IsCont(b[i]) THEN <<>> ELSE << Utf8At(b, i).cp >>])

\* char::encode_utf8
Utf8Encode(cp) ==
    IF cp < 128 THEN << cp >>
    ELSE IF cp < 2048 THEN << 192 + (cp \div 64), 128 + (cp % 64) >>
    ELSE IF cp < 65536
         THEN << 224 + (cp \div 4096), 128 + ((cp \div 64) % 64), 128 + (cp % 64) >>
    ELSE << 240 + (cp \div 262144), 128 + ((cp \div 4096) % 64),
            128 + ((cp \div 64) % 64), 128 + (cp % 64) >>

\* the String made of a sequence of chars
Str(cs) == Concat([i \in 1..Len(cs) |-> Utf8Encode(cs[i])])

\* char::encode_utf16
Utf16Encode(cp) ==
    IF cp < 65536 THEN << cp >>
    ELSE << 55296 + ((cp - 65536) \div 1024), 56320 + ((cp - 65536) % 1024) >>

\* str::encode_utf16() as a sequence of code units
EncodeUtf16(cs) == Concat([i \in 1..Len(cs) |-> Utf16Encode(cs[i])])

IsHighSurrogate(u) == u >= 55296 /\ u <= 56319

IsLowSurrogate(u) == u >= 56320 /\ u <= 57343

\* String::from_utf16(units).is_ok(): every high surrogate is followed by a
\* low one and every low surrogate follows a high one
ValidUtf16(us) ==
    \A i \in 1..Len(us) :
        /\ IsHighSurrogate(us[i]) => i < Len(us) /\ IsLowSurrogate(us[i + 1])
        /\ IsLowSurrogate(us[i]) => i > 1 /\ IsHighSurrogate(us[i - 1])

\* the chars of String::from_utf16(units) for valid units
DecodeUtf16(us) ==
    Concat([i \in 1..Len(us) |->
               IF IsLowSurrogate(us[i]) THEN <<>>
               ELSE IF IsHighSurrogate(us[i])
                    THEN << 65536 + (us[i] - 55296) * 1024 + (us[i + 1] - 56320) >>
               ELSE << us[i] >>])

\* u16::to_le_bytes of every unit
UnitsToLeBytes(us) ==
    [i \in 1..(2 * Len(us)) |->
        IF i % 2 = 1 THEN us[(i + 1) \div 2] % 256 ELSE us[i \div 2] \div 256]

\* data.chunks_exact(2).map(u16::from_le_bytes): a trailing odd byte is left out
LeBytesToUnits(b) ==
    [i \in 1..(Len(b) \div 2) |-> b[2 * i - 1] + 256 * b[2 * i]]

(***************************************************************************)
(* ClipboardResult<T>                                                      *)
(***************************************************************************)
Ok(v) == [ok |-> TRUE, err |-> "", val |-> v]

Err(e) == [ok |-> FALSE, err |-> e, val |-> <<>>]

\* ClipboardError::DataSizeExceeded { actual, max }
DataSizeExceeded(actual, max) ==
    [ok |-> FALSE, err |-> "DataSizeExceeded", val |-> << actual, max >>]

\* a panic of the calling thread (an out-of-range or non-boundary str slice)
Panic == [ok |-> FALSE, err |-> "panic", val |-> <<>>]

\* the value of output: the operation that ran and its result
Conversion(op, res) == [op |-> op, res |-> res]

\* the value of output before any conversion
NoConversion == Conversion("none", Ok(<<>>))

(***************************************************************************)
(* formats.rs: FormatConverter                                             *)
(***************************************************************************)
\* FormatConverter::new(): 16 * 1024 * 1024
DefaultMaxSize == 16777216

\* mutant of text_to_unicode: the null terminator is not appended
text_to_unicode_NoTerminator(self, text) ==
    IF Len(text) > self.max_size
    THEN DataSizeExceeded(Len(text), self.max_size)
    ELSE Ok(UnitsToLeBytes(EncodeUtf16(Chars(text))))

\* text_to_unicode(&self, text: &str)
text_to_unicode(self, text) ==
    IF Len(text) > self.max_size
    THEN DataSizeExceeded(Len(text), self.max_size)
    ELSE Ok(UnitsToLeBytes(EncodeUtf16(Chars(text))) \o << 0, 0 >>)

\* unicode_to_text(&self, data: &[u8])
unicode_to_text(self, data) ==
    IF Len(data) > self.max_size
    THEN DataSizeExceeded(Len(data), self.max_size)
    ELSE IF Len(data) % 2 # 0 THEN Err("InvalidUtf16")
    ELSE LET utf16 == LeBytesToUnits(data)
             stripped == IF utf16 # <<>> /\ utf16[Len(utf16)] = 0
                         THEN SubSeq(utf16, 1, Len(utf16) - 1)
                         ELSE utf16
         IN  IF ValidUtf16(stripped)
             THEN Ok(Str(DecodeUtf16(stripped)))
             ELSE Err("InvalidUtf16")

\* "Version:0.9\r\n"
VersionLine == << 86, 101, 114, 115, 105, 111, 110, 58, 48, 46, 57, 13, 10 >>

\* "StartHTML:"
KeyStartHTML == << 83, 116, 97, 114, 116, 72, 84, 77, 76, 58 >>

\* "EndHTML:"
KeyEndHTML == << 69, 110, 100, 72, 84, 77, 76, 58 >>

\* "StartFragment:"
KeyStartFragment == << 83, 116, 97, 114, 116, 70, 114, 97, 103, 109, 101, 110, 116, 58 >>

\* "EndFragment:"
KeyEndFragment == << 69, 110, 100, 70, 114, 97, 103, 109, 101, 110, 116, 58 >>

\* "\r\n"
CrLf == << 13, 10 >>

\* "XXXXXXXX"
Placeholder == << 88, 88, 88, 88, 88, 88, 88, 88 >>

header_template ==
    VersionLine \o KeyStartHTML \o Placeholder \o CrLf
                \o KeyEndHTML \o Placeholder \o CrLf
                \o KeyStartFragment \o Placeholder \o CrLf
                \o KeyEndFragment \o Placeholder \o CrLf

\* "<html><body><!--StartFragment-->"
prefix == << 60, 104, 116, 109, 108, 62, 60, 98, 111, 100, 121, 62, 60, 33, 45, 45, 83, 116, 97, 114, 116, 70, 114, 97, 103, 109, 101, 110, 116, 45, 45, 62 >>

\* "<!--EndFragment--></body></html>"
suffix == << 60, 33, 45, 45, 69, 110, 100, 70, 114, 97, 103, 109, 101, 110, 116, 45, 45, 62, 60, 47, 98, 111, 100, 121, 62, 60, 47, 104, 116, 109, 108, 62 >>

\* the decimal digits of n as ASCII bytes
RECURSIVE Digits(_)
Digits(n) == IF n < 10 THEN << 48 + n >> ELSE Digits(n \div 10) \o << 48 + (n % 10) >>

RECURSIVE ZeroPad(_,_)
ZeroPad(ds, width) == IF Len(ds) >= width THEN ds ELSE ZeroPad(<< 48 >> \o ds, width)

\* format!("{:08}", n)
Fmt08(n) == ZeroPad(Digits(n), 8)

\* html_to_cf_html(&self, html: &str)
html_to_cf_html(self, html_text) ==
    IF Len(html_text) > self.max_size
    THEN DataSizeExceeded(Len(html_text), self.max_size)
    ELSE LET header_len     == Len(header_template)
             start_html     == header_len
             start_fragment == header_len + Len(prefix)
             end_fragment   == start_fragment + Len(html_text)
             end_html       == end_fragment + Len(suffix)
             header == VersionLine
                         \o KeyStartHTML \o Fmt08(start_html) \o CrLf
                         \o KeyEndHTML \o Fmt08(end_html) \o CrLf
                         \o KeyStartFragment \o Fmt08(start_fragment) \o CrLf
                         \o KeyEndFragment \o Fmt08(end_fragment) \o CrLf
         IN  Ok(header \o prefix \o html_text \o suffix)

\* html_to_cf_html(&self, html: &str) on a string of html_len bytes that is
\* too long to write down: the header, and the length of what follows it
html_to_cf_html_of_len(self, html_len) ==
    IF html_len > self.max_size
    THEN DataSizeExceeded(html_len, self.max_size)
    ELSE LET header_len     == Len(header_template)
             start_html     == header_len
             start_fragment == header_len + Len(prefix)
             end_fragment   == start_fragment + html_len
             end_html       == end_fragment + Len(suffix)
             header == VersionLine
                         \o KeyStartHTML \o Fmt08(start_html) \o CrLf
                         \o KeyEndHTML \o Fmt08(end_html) \o CrLf
                         \o KeyStartFragment \o Fmt08(start_fragment) \o CrLf
                         \o KeyEndFragment \o Fmt08(end_fragment) \o CrLf
         IN  Ok([header |-> header,
                 body_len |-> Len(prefix) + html_len + Len(suffix)])

\* the least index of byte x in b, 0 when it does not occur
FirstIndex(b, x) ==
    IF \E i \in 1..Len(b) : b[i] = x
    THEN CHOOSE i \in 1..Len(b) : b[i] = x /\ \A j \in 1..(i - 1) : b[j] # x
    ELSE 0

\* a line of str::lines(): the terminating "\n" is gone, and a "\r" before it
StripCr(line) ==
    IF line # <<>> /\ line[Len(line)] = 13
    THEN SubSeq(line, 1, Len(line) - 1)
    ELSE line

\* str::lines(): split after every "\n"; a last line without "\n" is kept
\* as it is
RECURSIVE lines(_)
lines(text) ==
    IF text = <<>> THEN <<>>
    ELSE LET k == FirstIndex(text, 10)
         IN  IF k = 0 THEN << text >>
             ELSE << StripCr(SubSeq(text, 1, k - 1)) >>
                      \o lines(SubSeq(text, k + 1, Len(text)))

\* str::starts_with
starts_with(line, key) ==
    Len(line) >= Len(key) /\ SubSeq(line, 1, Len(key)) = key

\* char::is_whitespace
is_whitespace(c) ==
    \/ c >= 9 /\ c <= 13
    \/ c \in {32, 133, 160, 5760, 8232, 8233, 8239, 8287, 12288}
    \/ c >= 8192 /\ c <= 8202

\* str::trim, on chars
RECURSIVE trim(_)
trim(cs) ==
    IF cs = <<>> THEN cs
    ELSE IF is_whitespace(cs[1]) THEN trim(Tail(cs))
    ELSE IF is_whitespace(cs[Len(cs)]) THEN trim(SubSeq(cs, 1, Len(cs) - 1))
    ELSE cs

IsDecDigit(c) == c >= 48 /\ c <= 57

RECURSIVE DecValue(_,_)
DecValue(cs, acc) ==
    IF cs = <<>> THEN acc ELSE DecValue(Tail(cs), acc * 10 + (cs[1] - 48))

\* str::parse::<usize>(): an optional "+", then one or more decimal digits;
\* the values of this model stay below 10^9, far from usize::MAX
parse_usize(cs) ==
    LET digits == IF cs # <<>> /\ cs[1] = 43 THEN Tail(cs) ELSE cs
    IN  IF digits = <<>> \/ \E i \in 1..Len(digits) : ~IsDecDigit(digits[i])
        THEN None
        ELSE Some(DecValue(digits, 0))

\* ClipboardError::FormatConversion(message)
FormatConversion(message) ==
    [ok |-> FALSE, err |-> "FormatConversion", val |-> message]

\* the first element of a sequence satisfying starts_with(_, key)
RECURSIVE find_starts_with(_,_)
find_starts_with(ls, key) ==
    IF ls = <<>> THEN None
    ELSE IF starts_with(ls[1], key) THEN Some(ls[1])
    ELSE find_starts_with(Tail(ls), key)

\* parse_header_value(text: &str, key: &str)
parse_header_value(text, key, message) ==
    LET line == find_starts_with(lines(text), key)
    IN  IF line = None THEN FormatConversion(message)
        ELSE LET value == parse_usize(trim(Chars(SubSeq(line[1], Len(key) + 1, Len(line[1])))))
             IN  IF value = None THEN FormatConversion(message) ELSE Ok(value[1])

\* str::is_char_boundary
is_char_boundary(text, index) ==
    \/ index = 0
    \/ index = Len(text)
    \/ index < Len(text) /\ ~IsCont(text[index + 1])

\* cf_html_to_html(&self, data: &[u8])
cf_html_to_html(self, data) ==
    IF ~ValidUtf8(data) THEN Err("InvalidUtf8")
    ELSE LET text == data
             start_fragment ==
                 parse_header_value(text, KeyStartFragment, "missing StartFragment: header")
             end_fragment ==
                 parse_header_value(text, KeyEndFragment, "missing EndFragment: header")
         IN  IF ~start_fragment.ok THEN start_fragment
             ELSE IF ~end_fragment.ok THEN end_fragment
             ELSE IF start_fragment.val >= end_fragment.val
                       \/ end_fragment.val > Len(data)
                  THEN FormatConversion("invalid CF_HTML offsets")
             ELSE IF ~is_char_boundary(text, start_fragment.val)
                       \/ ~is_char_boundary(text, end_fragment.val)
                  THEN Panic
             ELSE Ok(SubSeq(text, start_fragment.val + 1, end_fragment.val))

\* the value of an ASCII hex digit, -1 for any other char
HexValue(c) ==
    IF c >= 48 /\ c <= 57 THEN c - 48
    ELSE IF c >= 97 /\ c <= 102 THEN c - 87
    ELSE IF c >= 65 /\ c <= 70 THEN c - 55
    ELSE -1

RECURSIVE HexDigitsValue(_,_)
HexDigitsValue(cs, acc) ==
    IF cs = <<>> THEN acc ELSE HexDigitsValue(Tail(cs), acc * 16 + HexValue(cs[1]))

\* u8::from_str_radix(hex, 16).ok() for the at most two chars taken after a
\* "%": a leading "+" is accepted as a sign, a "-" is an invalid digit
from_str_radix(hex) ==
    LET digits == IF hex # <<>> /\ hex[1] = 43 THEN Tail(hex) ELSE hex
    IN  IF digits = <<>> \/ \E i \in 1..Len(digits) : HexValue(digits[i]) < 0
        THEN None
        ELSE Some(HexDigitsValue(digits, 0))

RECURSIVE PercentDecodeChars(_)
PercentDecodeChars(cs) ==
    IF cs = <<>> THEN <<>>
    ELSE IF cs[1] = 37
         THEN LET rest  == Tail(cs)
                  hex   == SubSeq(rest, 1, IF Len(rest) < 2 THEN Len(rest) ELSE 2)
                  after == SubSeq(rest, Len(hex) + 1, Len(rest))
                  byte  == from_str_radix(hex)
              IN  IF byte # None
                  THEN << byte[1] >> \o PercentDecodeChars(after)
                  ELSE << 37 >> \o hex \o PercentDecodeChars(after)
    ELSE << cs[1] >> \o PercentDecodeChars(Tail(cs))

\* percent_decode(input: &str) -> String; "byte as char" is the char U+00XX
percent_decode(path) == Str(PercentDecodeChars(Chars(path)))

PercentEncodeChars(cs) ==
    Concat([i \in 1..Len(cs) |->
               CASE cs[i] = 32 -> << 37, 50, 48 >>
                 [] cs[i] = 35 -> << 37, 50, 51 >>
                 [] cs[i] = 37 -> << 37, 50, 53 >>
                 [] cs[i] = 63 -> << 37, 51, 70 >>
                 [] OTHER      -> << cs[i] >>])

\* percent_encode(input: &str) -> String
percent_encode(path) == Str(PercentEncodeChars(Chars(path)))

\* "file://"
FileScheme == << 102, 105, 108, 101, 58, 47, 47 >>

\* mutant of UriPaths: every line that is no comment counts as a path
RECURSIVE UriPaths_AnyLine(_)
UriPaths_AnyLine(ls) ==
    IF ls = <<>> THEN <<>>
    ELSE IF ~starts_with(ls[1], << 35 >>)
         THEN << ls[1] >> \o UriPaths_AnyLine(Tail(ls))
    ELSE UriPaths_AnyLine(Tail(ls))

\* the lines that are no comment and carry the "file://" prefix, without it
RECURSIVE UriPaths(_)
UriPaths(ls) ==
    IF ls = <<>> THEN <<>>
    ELSE IF ~starts_with(ls[1], << 35 >>) /\ starts_with(ls[1], FileScheme)
         THEN << SubSeq(ls[1], Len(FileScheme) + 1, Len(ls[1])) >> \o UriPaths(Tail(ls))
    ELSE UriPaths(Tail(ls))

\* DROPFILES: pFiles = 20, pt = (0, 0), fNC = 0, fWide = 1
DropFilesHeader ==
    to_le_bytes(20) \o to_le_bytes(0) \o to_le_bytes(0) \o to_le_bytes(0) \o to_le_bytes(1)

\* mutant of EncodePaths: no null code unit after a path
RECURSIVE EncodePaths_NoTerminator(_)
EncodePaths_NoTerminator(paths) ==
    IF paths = <<>> THEN <<>>
    ELSE UnitsToLeBytes(EncodeUtf16(Chars(percent_decode(paths[1]))))
           \o EncodePaths_NoTerminator(Tail(paths))

RECURSIVE EncodePaths(_)
EncodePaths(paths) ==
    IF paths = <<>> THEN <<>>
    ELSE UnitsToLeBytes(EncodeUtf16(Chars(percent_decode(paths[1])))) \o << 0, 0 >>
           \o EncodePaths(Tail(paths))

\* uri_list_to_hdrop(&self, uri_list: &str)
uri_list_to_hdrop(self, uri_list) ==
    LET paths == UriPaths(lines(uri_list))
    IN  IF paths = <<>> THEN FormatConversion("no valid file URIs")
        ELSE Ok(DropFilesHeader \o EncodePaths(paths) \o << 0, 0 >>)

\* u32::from_le_bytes; the buffers of this model keep the value below 2^31
from_le_bytes(b) == b[1] + 256 * b[2] + 65536 * b[3] + 16777216 * b[4]

\* the inner loop of the wide scan: code units from pos up to a null or the
\* end of the buffer
RECURSIVE ReadWidePath(_,_)
ReadWidePath(file_data, pos) ==
    IF pos + 2 > Len(file_data) THEN [path_chars |-> <<>>, pos |-> pos]
    ELSE LET c == file_data[pos + 1] + 256 * file_data[pos + 2]
         IN  IF c = 0 THEN [path_chars |-> <<>>, pos |-> pos + 2]
             ELSE LET r == ReadWidePath(file_data, pos + 2)
                  IN  [path_chars |-> << c >> \o r.path_chars, pos |-> r.pos]

\* the outer loop of the wide scan: the code units of every path in turn,
\* up to an empty path or the end of the buffer
RECURSIVE ScanWide(_,_)
ScanWide(file_data, pos) ==
    IF pos + 2 > Len(file_data) THEN <<>>
    ELSE LET r == ReadWidePath(file_data, pos)
         IN  IF r.path_chars = <<>> THEN <<>>
             ELSE << r.path_chars >> \o ScanWide(file_data, r.pos)

\* the ANSI scan: the bytes of every path in turn
RECURSIVE ScanAnsi(_,_)
ScanAnsi(file_data, pos) ==
    IF pos >= Len(file_data) THEN <<>>
    ELSE LET tail == SubSeq(file_data, pos + 1, Len(file_data))
             k    == FirstIndex(tail, 0)
             end  == IF k # 0 THEN k - 1 ELSE Len(file_data) - pos
         IN  IF end = 0 THEN <<>>
             ELSE << SubSeq(file_data, pos + 1, pos + end) >>
                      \o ScanAnsi(file_data, pos + end + 1)

\* "if let Ok(path) = String::from_utf16(..)": a path that does not decode
\* is left out
RECURSIVE WideUris(_)
WideUris(raw) ==
    IF raw = <<>> THEN <<>>
    ELSE (IF ValidUtf16(raw[1])
          THEN << FileScheme \o percent_encode(Str(DecodeUtf16(raw[1]))) >>
          ELSE <<>>) \o WideUris(Tail(raw))

\* "if let Ok(path) = std::str::from_utf8(..)"
RECURSIVE AnsiUris(_)
AnsiUris(raw) ==
    IF raw = <<>> THEN <<>>
    ELSE (IF ValidUtf8(raw[1])
          THEN << FileScheme \o percent_encode(raw[1]) >>
          ELSE <<>>) \o AnsiUris(Tail(raw))

\* [String]::join(sep)
RECURSIVE join(_,_)
join(strs, sep) ==
    IF strs = <<>> THEN <<>>
    ELSE IF Len(strs) = 1 THEN strs[1]
    ELSE strs[1] \o sep \o join(Tail(strs), sep)

\* hdrop_to_uri_list(&self, data: &[u8])
hdrop_to_uri_list(self, data) ==
    IF Len(data) < 20 THEN FormatConversion("HDROP too small")
    ELSE LET p_files == from_le_bytes(SubSeq(data, 1, 4))
             f_wide  == from_le_bytes(SubSeq(data, 17, 20)) # 0
         IN  IF p_files >= Len(data) THEN FormatConversion("invalid pFiles offset")
             ELSE LET file_data == SubSeq(data, p_files + 1, Len(data))
                      paths == IF f_wide THEN WideUris(ScanWide(file_data, 0))
                                         ELSE AnsiUris(ScanAnsi(file_data, 0))
                  IN  Ok(join(paths, CrLf))

(***************************************************************************)
(* formats.rs: FileDescriptor.  A u64 is kept as its two 32-bit halves;    *)
(* the u32 values of the buffers modelled here stay below 2^31.            *)
(***************************************************************************)
\* FileDescriptorFlags::ATTRIBUTES
ATTRIBUTES == 1

\* FileDescriptorFlags::FILESIZE
FILESIZE == 64

\* FileDescriptorFlags::WRITESTIME
WRITESTIME == 32

\* FileDescriptorFlags::CREATETIME
CREATETIME == 2

\* FileDescriptorFlags::ACCESSTIME
ACCESSTIME == 16

\* a & b on unsigned integers
RECURSIVE BitAnd(_,_)
BitAnd(a, b) ==
    IF a = 0 \/ b = 0 THEN 0
    ELSE (a % 2) * (b % 2) + 2 * BitAnd(a \div 2, b \div 2)

\* has_flag testing whether any bit at all is set
has_flag_AnyBit(flags, flag) == flags # 0

\* FileDescriptorFlags::has_flag
has_flag(flags, flag) == BitAnd(flags, flag) # 0

\* u64::from_le_bytes: hi * 2^32 + lo
u64_from_le_bytes(b) ==
    [hi |-> from_le_bytes(SubSeq(b, 5, 8)), lo |-> from_le_bytes(SubSeq(b, 1, 4))]

\* ((size_high as u64) << 32) | (size_low as u64)
FileSize(size_high, size_low) == [hi |-> size_high, lo |-> size_low]

\* Iterator::take_while(|&c| c != 0)
take_while_nonzero(us) ==
    LET k == FirstIndex(us, 0)
    IN  IF k = 0 THEN us ELSE SubSeq(us, 1, k - 1)

\* FileDescriptor::parse_utf16_filename(data: &[u8])
parse_utf16_filename(data) ==
    IF Len(data) % 2 # 0 THEN Err("InvalidUtf16")
    ELSE LET utf16 == take_while_nonzero(LeBytesToUnits(data))
         IN  IF ValidUtf16(utf16) THEN Ok(Str(DecodeUtf16(utf16)))
             ELSE Err("InvalidUtf16")

\* FileDescriptor::parse(data: &[u8])
parse(data) ==
    IF Len(data) < 592 THEN FormatConversion("FILEDESCRIPTORW too small")
    ELSE LET flags      == from_le_bytes(SubSeq(data, 1, 4))
             attributes == from_le_bytes(SubSeq(data, 37, 40))
             creation_time ==
                 IF has_flag(flags, CREATETIME)
                 THEN Some(u64_from_le_bytes(SubSeq(data, 41, 48))) ELSE None
             access_time ==
                 IF has_flag(flags, ACCESSTIME)
                 THEN Some(u64_from_le_bytes(SubSeq(data, 49, 56))) ELSE None
             write_time ==
                 IF has_flag(flags, WRITESTIME)
                 THEN Some(u64_from_le_bytes(SubSeq(data, 57, 64))) ELSE None
             size ==
                 IF has_flag(flags, FILESIZE)
                 THEN LET size_high == from_le_bytes(SubSeq(data, 65, 68))
                          size_low  == from_le_bytes(SubSeq(data, 69, 72))
                      IN  Some(FileSize(size_high, size_low))
                 ELSE None
             name == parse_utf16_filename(SubSeq(data, 73, 592))
         IN  IF ~name.ok THEN name
             ELSE Ok([flags |-> flags, attributes |-> attributes,
                      creation_time |-> creation_time, access_time |-> access_time,
                      write_time |-> write_time, size |-> size, name |-> name.val])

\* mutant of ParseEach: a record that does not parse is left out
RECURSIVE ParseEach_SkipErrors(_,_,_)
ParseEach_SkipErrors(data, i, count) ==
    IF i >= count THEN Ok(<<>>)
    ELSE LET offset     == 4 + i * 592
             descriptor == parse(SubSeq(data, offset + 1, offset + 592))
             rest       == ParseEach_SkipErrors(data, i + 1, count)
         IN  IF ~descriptor.ok THEN rest
             ELSE Ok(<< descriptor.val >> \o rest.val)

\* the loop of parse_list: the descriptors from index i on, or the first error
RECURSIVE ParseEach(_,_,_)
ParseEach(data, i, count) ==
    IF i >= count THEN Ok(<<>>)
    ELSE LET offset     == 4 + i * 592
             descriptor == parse(SubSeq(data, offset + 1, offset + 592))
         IN  IF ~descriptor.ok THEN descriptor
             ELSE LET rest == ParseEach(data, i + 1, count)
                  IN  IF ~rest.ok THEN rest
                      ELSE Ok(<< descriptor.val >> \o rest.val)

\* FileDescriptor::parse_list(data: &[u8])
parse_list(data) ==
    IF Len(data) < 4 THEN FormatConversion("FileGroupDescriptorW too small for count")
    ELSE LET count == from_le_bytes(SubSeq(data, 1, 4))
         IN  IF count = 0 THEN Ok(<<>>)
             ELSE LET expected_size == 4 + count * 592
                  IN  IF Len(data) < expected_size
                      THEN FormatConversion("FileGroupDescriptorW too small")
                      ELSE ParseEach(data, 0, count)

(***************************************************************************)
(* image.rs.  A DynamicImage is a record: its variant (ImageRgba8 or       *)
(* ImageRgb8), its width and height, and the bytes of its pixels, row by   *)
(* row from the top.  The decoders and encoders of the image crate (PNG,   *)
(* JPEG, GIF) are outside this model.  The integers of the buffers         *)
(* modelled here stay below 2^31 in absolute value.                        *)
(***************************************************************************)
ImageRgba8(width, height, data) ==
    [variant |-> "ImageRgba8", width |-> width, height |-> height, data |-> data]

ImageRgb8(width, height, data) ==
    [variant |-> "ImageRgb8", width |-> width, height |-> height, data |-> data]

\* ClipboardError::ImageDecode(message)
ImageDecode(message) ==
    [ok |-> FALSE, err |-> "ImageDecode", val |-> message]

\* BufMut::put_u16_le
put_u16_le(n) == << n % 256, n \div 256 >>

\* BufMut::put_u32_le
put_u32_le(n) == to_le_bytes(n)

\* BufMut::put_i32_le: two's complement
put_i32_le(n) ==
    IF n >= 0 THEN to_le_bytes(n)
    ELSE [i \in 1..4 |-> 255 - to_le_bytes(-(n + 1))[i]]

\* i32::from_le_bytes
i32_from_le_bytes(b) ==
    b[1] + 256 * b[2] + 65536 * b[3]
        + 16777216 * (IF b[4] < 128 THEN b[4] ELSE b[4] - 256)

\* u16::from_le_bytes
u16_from_le_bytes(b) == b[1] + 256 * b[2]

\* i32::unsigned_abs
unsigned_abs(n) == IF n < 0 THEN -n ELSE n

\* "BM"
BmpSignature == << 66, 77 >>

\* mutant of bmp_to_dib: the DIB is taken from the pixel offset 54 on
bmp_to_dib_FromPixelOffset(bmp_data) ==
    IF Len(bmp_data) < 14 THEN ImageDecode("BMP file too small")
    ELSE IF SubSeq(bmp_data, 1, 2) # BmpSignature THEN ImageDecode("Invalid BMP signature")
    ELSE Ok(SubSeq(bmp_data, 55, Len(bmp_data)))

\* bmp_to_dib(bmp_data: &[u8])
bmp_to_dib(bmp_data) ==
    IF Len(bmp_data) < 14 THEN ImageDecode("BMP file too small")
    ELSE IF SubSeq(bmp_data, 1, 2) # BmpSignature THEN ImageDecode("Invalid BMP signature")
    ELSE Ok(SubSeq(bmp_data, 15, Len(bmp_data)))

\* dib_to_bmp(dib_data: &[u8]); u32::try_from(14 + dib_data.len()) succeeds
\* on every buffer of this model
dib_to_bmp(dib_data) ==
    IF Len(dib_data) < 40 THEN ImageDecode("DIB too small")
    ELSE LET file_size    == 14 + Len(dib_data)
             pixel_offset == 14 + 40
         IN  Ok(BmpSignature \o put_u32_le(file_size) \o put_u16_le(0) \o put_u16_le(0)
                  \o put_u32_le(pixel_offset) \o dib_data)

\* dib_dimensions(dib_data: &[u8])
dib_dimensions(dib_data) ==
    IF Len(dib_data) < 12 THEN ImageDecode("DIB too small")
    ELSE Ok(<< unsigned_abs(i32_from_le_bytes(SubSeq(dib_data, 5, 8))),
               unsigned_abs(i32_from_le_bytes(SubSeq(dib_data, 9, 12))) >>)

\* DynamicImage::to_rgba8: an RGB pixel gets the alpha 255
to_rgba8(image) ==
    IF image.variant = "ImageRgba8" THEN image
    ELSE ImageRgba8(image.width, image.height,
                    Concat([i \in 1..(image.width * image.height) |->
                               SubSeq(image.data, 3 * i - 2, 3 * i) \o << 255 >>]))

\* create_dib_from_image(image: &DynamicImage); the dimensions of this model
\* are far from those where try_from fails or saturating_mul saturates
create_dib_from_image(image) ==
    LET rgba       == to_rgba8(image)
        width      == rgba.width
        height     == rgba.height
        image_size == width * height * 4
        header == put_u32_le(40) \o put_i32_le(width) \o put_i32_le(-height)
                    \o put_u16_le(1) \o put_u16_le(32) \o put_u32_le(0)
                    \o put_u32_le(image_size)
                    \o put_i32_le(0) \o put_i32_le(0) \o put_u32_le(0) \o put_u32_le(0)
        pixels == [i \in 1..(4 * width * height) |->
                      CASE i % 4 = 1 -> rgba.data[i + 2]
                        [] i % 4 = 2 -> rgba.data[i]
                        [] i % 4 = 3 -> rgba.data[i - 2]
                        [] OTHER     -> rgba.data[i]]
    IN  Ok(header \o pixels)

\* the row of the buffer that holds row y of the image
RowY(y, height, top_down) == IF top_down THEN y ELSE height - 1 - y

\* convert_32bit_dib(pixel_data, width, height, top_down)
convert_32bit_dib(pixel_data, width, height, top_down) ==
    LET expected_size == width * height * 4
    IN  IF Len(pixel_data) < expected_size THEN ImageDecode("Insufficient pixel data")
        ELSE LET pixel(y, x) ==
                     LET pixel_offset == RowY(y, height, top_down) * width * 4 + x * 4
                     IN  IF pixel_offset + 3 < Len(pixel_data)
                         THEN << pixel_data[pixel_offset + 3], pixel_data[pixel_offset + 2],
                                 pixel_data[pixel_offset + 1], pixel_data[pixel_offset + 4] >>
                         ELSE <<>>
                 rgba_data ==
                     Concat([y1 \in 1..height |->
                                Concat([x1 \in 1..width |-> pixel(y1 - 1, x1 - 1)])])
             IN  IF Len(rgba_data) >= width * height * 4
                 THEN Ok(ImageRgba8(width, height, rgba_data))
                 ELSE ImageDecode("Failed to create image from DIB")

\* width * 3 in u32: whether the product overflows, and its low 32 bits.
\* The widths of this model are below 2^29, where the product fits, or from
\* 1431655766 = (2^32 + 2) / 3 up to i32::MAX, where it wraps.
wrapping_mul_3(width) ==
    IF width <= 1431655765 THEN [overflow |-> FALSE, val |-> width * 3]
    ELSE [overflow |-> TRUE, val |-> (width - 1431655766) * 3 + 2]

\* (width * 3).div_ceil(4) * 4, the product taken as it wraps
RowSize(width) == ((wrapping_mul_3(width).val + 3) \div 4) * 4

\* the pixels that the loop over x pushes for a row that starts at
\* row_offset: those with pixel_offset + 2 < pixel_data.len(), which are the
\* first (len - row_offset) / 3 of the row, at most width
PushedInRow(len, row_offset, width) ==
    LET fit == (len - row_offset) \div 3
    IN  IF fit < 0 THEN 0 ELSE IF fit > width THEN width ELSE fit

\* ImageBuffer::from_raw accepts a buffer of at least width * height *
\* channels bytes; the comparison is written with divisions so that no
\* product leaves the integers of the model
FitsRaw(len, width, height, channels) ==
    height = 0 \/ (len \div channels) \div height >= width

\* convert_24bit_dib(pixel_data, width, height, top_down); width * 3 is a
\* u32 product: where it overflows, a build with overflow checks panics and
\* a build without them goes on with the low 32 bits
convert_24bit_dib(pixel_data, width, height, top_down, overflow_checks) ==
    IF overflow_checks /\ wrapping_mul_3(width).overflow THEN Panic
    ELSE
    LET row_size      == RowSize(width)
        expected_size == row_size * height
    IN  IF Len(pixel_data) < expected_size THEN ImageDecode("Insufficient pixel data")
        ELSE LET pixel(y, x) ==
                     LET pixel_offset == RowY(y, height, top_down) * row_size + x * 3
                     IN  << pixel_data[pixel_offset + 3], pixel_data[pixel_offset + 2],
                            pixel_data[pixel_offset + 1] >>
                 pushed(y) ==
                     PushedInRow(Len(pixel_data), RowY(y, height, top_down) * row_size, width)
                 rgb_data ==
                     Concat([y1 \in 1..height |->
                                Concat([x1 \in 1..pushed(y1 - 1) |-> pixel(y1 - 1, x1 - 1)])])
             IN  IF FitsRaw(Len(rgb_data), width, height, 3)
                 THEN Ok(ImageRgb8(width, height, rgb_data))
                 ELSE ImageDecode("Failed to create image from DIB")

\* parse_dib_to_image(dib_data: &[u8]), in a build with or without overflow
\* checks
parse_dib_to_image(dib_data, overflow_checks) ==
    IF Len(dib_data) < 40 THEN ImageDecode("DIB too small")
    ELSE LET bi_size    == from_le_bytes(SubSeq(dib_data, 1, 4))
             width      == unsigned_abs(i32_from_le_bytes(SubSeq(dib_data, 5, 8)))
             height_raw == i32_from_le_bytes(SubSeq(dib_data, 9, 12))
             height     == unsigned_abs(height_raw)
             top_down   == height_raw < 0
             bit_count  == u16_from_le_bytes(SubSeq(dib_data, 15, 16))
             header_size == bi_size
         IN  IF bi_size < 40 THEN ImageDecode("Invalid DIB header size")
             ELSE IF header_size >= Len(dib_data)
                  THEN ImageDecode("DIB header larger than data")
             ELSE LET pixel_data == SubSeq(dib_data, header_size + 1, Len(dib_data))
                  IN  CASE bit_count = 32 ->
                               convert_32bit_dib(pixel_data, width, height, top_down)
                        [] bit_count = 24 ->
                               convert_24bit_dib(pixel_data, width, height, top_down,
                                                 overflow_checks)
                        [] OTHER -> ImageDecode("Unsupported DIB bit depth")

(***************************************************************************)
(* loop_detector.rs                                                        *)
(***************************************************************************)
Rdp == "Rdp"

Local == "Local"

ClipboardSource == {Rdp, Local}

\* mutant of opposite: the check compares with the source it was given
opposite_Same(source) == source

\* ClipboardSource::opposite
opposite(source) == IF source = Rdp THEN Local ELSE Rdp

\* struct ClipboardOperation
ClipboardOperation(hash, source, timestamp) ==
    [hash |-> hash, source |-> source, timestamp |-> timestamp]

\* Instant::duration_since saturates at zero
duration_since(later, earlier) == IF later >= earlier THEN later - earlier ELSE 0

\* concatenation of a sequence of byte buffers
RECURSIVE Flatten(_)
Flatten(ss) == IF ss = <<>> THEN <<>> ELSE Head(ss) \o Flatten(Tail(ss))

\* hash_formats: update(id.to_le_bytes()), then update(name) when there is a name
hash_formats(formats) ==
    Flatten([i \in 1..Len(formats) |->
        to_le_bytes(formats[i].id)
            \o (IF formats[i].name # None THEN formats[i].name[1] ELSE <<>>)])

\* hash_mime_types: update(mime), update(b"\0") for each entry
hash_mime_types(mime_types) ==
    Flatten([i \in 1..Len(mime_types) |-> mime_types[i] \o <<0>>])

\* hash_content: update(data)
hash_content(data) == data

\* mutant of ScanRev: the scan also stops at the first entry that does not
\* match
RECURSIVE ScanRev_StopAtMismatch(_, _, _, _, _, _)
ScanRev_StopAtMismatch(history, i, hash, current_source, window, t) ==
    IF i = 0 THEN FALSE
    ELSE IF duration_since(t, history[i].timestamp) > window THEN FALSE
    ELSE history[i].source = opposite(current_source) /\ history[i].hash = hash

\* check_hash_collision, the scan of history.iter().rev() from position i down
RECURSIVE ScanRev(_, _, _, _, _, _)
ScanRev(history, i, hash, current_source, window, t) ==
    IF i = 0 THEN FALSE
    ELSE IF duration_since(t, history[i].timestamp) > window THEN FALSE
    ELSE IF history[i].source = opposite(current_source) /\ history[i].hash = hash
         THEN TRUE
    ELSE ScanRev(history, i - 1, hash, current_source, window, t)

\* mutant of check_hash_collision: scans with cleanup_history's window
check_hash_collision_CleanupWindow(cfg, t, history, hash, current_source) ==
    ScanRev(history, Len(history), hash, current_source, cfg.window_ms * 2, t)

check_hash_collision(cfg, t, history, hash, current_source) ==
    ScanRev(history, Len(history), hash, current_source, cfg.window_ms, t)

\* mutant of RemoveOld: the age loop never pops
RemoveOld_Never(history, window, t) == history

\* mutant of RemoveOld: an entry older than window is stamped anew instead
\* of being popped
RemoveOld_Restamp(history, window, t) ==
    [i \in 1..Len(history) |->
        IF duration_since(t, history[i].timestamp) > window
        THEN [history[i] EXCEPT !.timestamp = t]
        ELSE history[i]]

\* cleanup_history, first loop: pop_front while the front is older than window
RECURSIVE RemoveOld(_, _, _)
RemoveOld(history, window, t) ==
    IF history # <<>> /\ duration_since(t, history[1].timestamp) > window
    THEN RemoveOld(Tail(history), window, t)
    ELSE history

\* mutant of EnforceMax: the length loop stops one entry early
RECURSIVE EnforceMax_OffByOne(_, _)
EnforceMax_OffByOne(history, max_history) ==
    IF Len(history) > max_history + 1
    THEN EnforceMax_OffByOne(Tail(history), max_history)
    ELSE history

\* mutant of EnforceMax: the length loop pops at the back
RECURSIVE EnforceMax_PopBack(_, _)
EnforceMax_PopBack(history, max_history) ==
    IF Len(history) > max_history
    THEN EnforceMax_PopBack(SubSeq(history, 1, Len(history) - 1), max_history)
    ELSE history

\* cleanup_history, second loop: pop_front while len > max_history
RECURSIVE EnforceMax(_, _)
EnforceMax(history, max_history) ==
    IF Len(history) > max_history
    THEN EnforceMax(Tail(history), max_history)
    ELSE history

\* mutant of cleanup_history: the age loops use a window of zero
cleanup_history_ZeroWindow(cfg, t, history) ==
    EnforceMax(RemoveOld(history, 0, t), cfg.max_history)

\* mutant of cleanup_history: the loops that enforce max_history are missing
cleanup_history_AgeOnly(cfg, t, history) == RemoveOld(history, cfg.window_ms * 2, t)

\* cleanup_history applied to one of the two queues, at instant t
cleanup_history(cfg, t, history) ==
    EnforceMax(RemoveOld(history, cfg.window_ms * 2, t), cfg.max_history)

(***************************************************************************)
(* Inputs the operations are called with.                                  *)
(***************************************************************************)
\* the format lists record_formats is called with
RecordedFormatLists == { << unicode_text >> }

\* the format lists would_cause_loop is called with: the recorded one, and
\* lists that differ from it in an id, in a name or in their length
FormatLists ==
    RecordedFormatLists \cup
    { << html >>,
      << with_name(CF_UNICODETEXT, <<>>) >>,
      << unicode_text, new(CF_TEXT) >>,
      << with_name(CF_UNICODETEXT, to_le_bytes(CF_TEXT)) >> }

\* "text/plain" and "text/html" as bytes
TextPlain == <<116, 101, 120, 116, 47, 112, 108, 97, 105, 110>>

TextHtml == <<116, 101, 120, 116, 47, 104, 116, 109, 108>>

RecordedMimeLists == { << TextPlain >> }

MimeLists == RecordedMimeLists \cup { << TextPlain, TextHtml >> }

\* "Hi" and "Different" as bytes
Contents == { <<72, 105>>, <<68, 105, 102, 102, 101, 114, 101, 110, 116>> }

\* the values of max_history the configurations are drawn with
HistorySizes == {0, 1, 2}

Configs ==
    [window_ms : 0..MaxWindow, max_history : HistorySizes,
     enable_content_hashing : BOOLEAN]

\* the value of the history variable last
Call(op, arg, source) == [op |-> op, arg |-> arg, source |-> source]

\* LoopDetector::with_config(config)
Init ==
    /\ config \in Configs
    /\ format_history = <<>>
    /\ content_history = <<>>
    /\ now = 0
    /\ cleared = FALSE
    /\ last = Call("with_config", <<>>, "-")
    /\ converter = [max_size |-> DefaultMaxSize]
    /\ input = <<>>
    /\ output = NoConversion

(***************************************************************************)
(* The public operations.  One call runs at one instant: the clock reads   *)
(* inside a call (the pushed timestamp, cleanup_history) return now, and   *)
(* time passes between calls (Tick).                                       *)
(***************************************************************************)
\* record_operation, called at line 136 on a clone of format_history: the
\* clone is a temporary, dropped at the end of the statement
record_operation(history, hash, source, t) ==
    Append(history, ClipboardOperation(hash, source, t))

record_formats(formats, source) ==
    LET dropped == record_operation(format_history, hash_formats(formats), source, now)
        pushed == Append(format_history,
                         ClipboardOperation(hash_formats(formats), source, now))
    IN  /\ Len(dropped) = Len(format_history) + 1
        /\ format_history' = cleanup_history(config, now, pushed)
        /\ content_history' = cleanup_history(config, now, content_history)
        /\ cleared' = FALSE
        /\ last' = Call("record_formats", formats, source)
        /\ UNCHANGED <<converter, input, output, config, now>>

record_mime_types(mime_types, source) ==
    LET pushed == Append(format_history,
                         ClipboardOperation(hash_mime_types(mime_types), source, now))
    IN  /\ format_history' = cleanup_history(config, now, pushed)
        /\ content_history' = cleanup_history(config, now, content_history)
        /\ cleared' = FALSE
        /\ last' = Call("record_mime_types", mime_types, source)
        /\ UNCHANGED <<converter, input, output, config, now>>

record_content(data, source) ==
    IF ~config.enable_content_hashing
    THEN /\ cleared' = FALSE
         /\ last' = Call("record_content", data, source)
         /\ UNCHANGED <<converter, input, output, config, format_history, content_history, now>>
    ELSE LET pushed == Append(content_history,
                              ClipboardOperation(hash_content(data), source, now))
         IN  /\ format_history' = cleanup_history(config, now, format_history)
             /\ content_history' = cleanup_history(config, now, pushed)
             /\ cleared' = FALSE
             /\ last' = Call("record_content", data, source)
             /\ UNCHANGED <<converter, input, output, config, now>>

\* mutant of WouldCauseLoop: checks on behalf of Rdp instead of Local
WouldCauseLoop_ForRdp(cfg, t, fh, formats) ==
    check_hash_collision(cfg, t, fh, hash_formats(formats), Rdp)

\* mutant of WouldCauseContentLoop: the early return answers true
WouldCauseContentLoop_DisabledTrue(cfg, t, ch, data, source) ==
    IF ~cfg.enable_content_hashing
    THEN TRUE
    ELSE check_hash_collision(cfg, t, ch, hash_content(data), source)

\* mutant of WouldCauseLoopMime: checks on behalf of Local instead of Rdp
WouldCauseLoopMime_ForLocal(cfg, t, fh, mime_types) ==
    check_hash_collision(cfg, t, fh, hash_mime_types(mime_types), Local)

\* what the three checks return in the state (cfg, t, fh, ch)
WouldCauseLoop(cfg, t, fh, formats) ==
    check_hash_collision(cfg, t, fh, hash_formats(formats), Local)

WouldCauseLoopMime(cfg, t, fh, mime_types) ==
    check_hash_collision(cfg, t, fh, hash_mime_types(mime_types), Rdp)

WouldCauseContentLoop(cfg, t, ch, data, source) ==
    IF ~cfg.enable_content_hashing
    THEN FALSE
    ELSE check_hash_collision(cfg, t, ch, hash_content(data), source)

\* would_cause_loop(&self, formats): reads the state and the clock
would_cause_loop(formats) == WouldCauseLoop(config, now, format_history, formats)

\* would_cause_loop_mime(&self, mime_types)
would_cause_loop_mime(mime_types) ==
    WouldCauseLoopMime(config, now, format_history, mime_types)

\* would_cause_content_loop(&self, data, source)
would_cause_content_loop(data, source) ==
    WouldCauseContentLoop(config, now, content_history, data, source)

\* mutant of clear: content_history is left alone
clear_FormatsOnly ==
    /\ format_history' = <<>>
    /\ cleared' = TRUE
    /\ last' = Call("clear", <<>>, "-")
    /\ UNCHANGED <<converter, input, output, config, content_history, now>>

clear ==
    /\ format_history' = <<>>
    /\ content_history' = <<>>
    /\ cleared' = TRUE
    /\ last' = Call("clear", <<>>, "-")
    /\ UNCHANGED <<converter, input, output, config, now>>

\* time passes between two calls
Tick ==
    /\ now < MaxTime
    /\ now' = now + 1
    /\ last' = Call("tick", <<>>, "-")
    /\ UNCHANGED <<converter, input, output, config, format_history, content_history, cleared>>

RecordFormats ==
    \E f \in RecordedFormatLists, s \in ClipboardSource : record_formats(f, s)

RecordMimeTypes ==
    \E m \in RecordedMimeLists, s \in ClipboardSource : record_mime_types(m, s)

RecordContent ==
    \E c \in Contents, s \in ClipboardSource : record_content(c, s)

Next ==
    \/ RecordFormats
    \/ RecordMimeTypes
    \/ RecordContent
    \/ clear
    \/ Tick

Spec == Init /\ [][Next]_vars

(***************************************************************************)
(* The shared queue as a state machine: a detector on which one call of    *)
(* record_formats by Rdp is followed by calls of record_mime_types, at     *)
(* most max_history of them, while time passes.  input keeps the format    *)
(* list of the first call; output keeps how many record_mime_types calls   *)
(* followed and the instant of the first call.                             *)
(***************************************************************************)
\* a list of two formats whose ids and name are, byte for byte, "text",
\* "/pl" and "ain\0": 0x74786574 with name "/pl", then 0x006E6961
TextPlainFormats == << with_name(1954047348, << 47, 112, 108 >>), new(7235937) >>

\* the format lists the first call is made with
FirstFormatLists == { << unicode_text >>, << html >>, TextPlainFormats }

\* the value of output: calls of record_mime_types so far, instant of the
\* record_formats call
Progress(calls, start) == Conversion("record_mime_types", Ok([calls |-> calls, start |-> start]))

SharedQueueInit ==
    /\ config \in Configs
    /\ format_history = <<>>
    /\ content_history = <<>>
    /\ now = 0
    /\ cleared = FALSE
    /\ last = Call("with_config", <<>>, "-")
    /\ converter = [max_size |-> DefaultMaxSize]
    /\ input = <<>>
    /\ output = NoConversion

\* record_formats(formats, Rdp), the first call
FirstRecordFormats ==
    \E formats \in FirstFormatLists :
        LET pushed == Append(format_history,
                             ClipboardOperation(hash_formats(formats), Rdp, now))
        IN  /\ output = NoConversion
            /\ format_history' = cleanup_history(config, now, pushed)
            /\ content_history' = cleanup_history(config, now, content_history)
            /\ cleared' = FALSE
            /\ last' = Call("record_formats", formats, Rdp)
            /\ input' = formats
            /\ output' = Progress(0, now)
            /\ UNCHANGED <<converter, config, now>>

\* record_mime_types(mime_types, source), one of the calls that follow
NextRecordMimeTypes ==
    \E mime_types \in MimeLists, source \in ClipboardSource :
        LET pushed == Append(format_history,
                             ClipboardOperation(hash_mime_types(mime_types), source, now))
        IN  /\ output # NoConversion
            /\ output.res.val.calls < config.max_history
            /\ format_history' = cleanup_history(config, now, pushed)
            /\ content_history' = cleanup_history(config, now, content_history)
            /\ cleared' = FALSE
            /\ last' = Call("record_mime_types", mime_types, source)
            /\ output' = Progress(output.res.val.calls + 1, output.res.val.start)
            /\ UNCHANGED <<converter, input, config, now>>

SharedQueueNext ==
    \/ FirstRecordFormats
    \/ NextRecordMimeTypes
    \/ Tick

SharedQueueSpec == SharedQueueInit /\ [][SharedQueueNext]_vars

(***************************************************************************)
(* The format converter as a state machine: a converter is built with a    *)
(* max_size, and every call applies one of its six operations to a buffer. *)
(* The operations take &self and change nothing, so what a call returns    *)
(* does not depend on the calls before it: a behaviour makes one call.     *)
(***************************************************************************)
\* a max_size below the length of most of the buffers below
SmallMaxSize == 4

\* a max_size that admits three UTF-16 code units and their terminator
TightMaxSize == 8

\* FormatConverter::with_max_size(..), FormatConverter::new()
Converters ==
    { [max_size |-> SmallMaxSize], [max_size |-> TightMaxSize],
      [max_size |-> DefaultMaxSize] }

\* strings: "", "Hi", "e-acute, U+1F600", "<b>e-acute</b>", a URI with a
\* space, a URI list with a comment and escapes, a list without file URI,
\* a list whose first URI has no path, a URI with an escaped NUL, a comment
\* line that holds a URI
StrInputs ==
    { <<>>,
      << 35, 32, 102, 105, 108, 101, 58, 47, 47, 47, 97 >>,
      << 102, 105, 108, 101, 58, 47, 47, 10, 102, 105, 108, 101, 58, 47, 47, 47, 97 >>,
      << 102, 105, 108, 101, 58, 47, 47, 47, 97, 37, 48, 48, 98 >>,
      << 72, 105 >>,
      << 195, 169, 240, 159, 152, 128 >>,
      << 60, 98, 62, 195, 169, 60, 47, 98, 62 >>,
      << 102, 105, 108, 101, 58, 47, 47, 47, 97, 32, 98 >>,
      << 35, 32, 99, 13, 10, 102, 105, 108, 101, 58, 47, 47, 47, 97, 37, 50, 48, 98, 10, 102, 105, 108, 101, 58, 47, 47, 47, 37, 101, 57 >>,
      << 104, 116, 116, 112, 58, 47, 47, 120 >> }

\* CF_UNICODETEXT buffers: "Hi" with its terminator, an odd length, an
\* unpaired surrogate, e-acute and U+1F600 without terminator
UnicodeInputs ==
    { << 72, 0, 105, 0, 0, 0 >>,
      << 72, 0, 105 >>,
      << 0, 216, 0, 0 >>,
      << 233, 0, 61, 216, 0, 222 >> }

\* CF_HTML buffers: two encoded by html_to_cf_html, one with StartFragment
\* after EndFragment, one whose EndFragment falls inside a character, one
\* without header, one that is not UTF-8
CfHtmlInputs ==
    { html_to_cf_html([max_size |-> DefaultMaxSize], << 72, 105 >>).val,
      html_to_cf_html([max_size |-> DefaultMaxSize], << 60, 98, 62, 195, 169, 60, 47, 98, 62 >>).val,
      << 83, 116, 97, 114, 116, 70, 114, 97, 103, 109, 101, 110, 116, 58, 53, 10, 69, 110, 100, 70, 114, 97, 103, 109, 101, 110, 116, 58, 50, 10 >>,
      << 83, 116, 97, 114, 116, 70, 114, 97, 103, 109, 101, 110, 116, 58, 51, 50, 10, 69, 110, 100, 70, 114, 97, 103, 109, 101, 110, 116, 58, 51, 51, 10, 195, 169 >>,
      << 60, 112, 62, 120, 60, 47, 112, 62 >>,
      << 255, 254 >> }

\* HDROP buffers: one encoded by uri_list_to_hdrop, a wide list whose only
\* path is an unpaired surrogate, a wide list with such a path before "a",
\* an ANSI list, an ANSI list whose path is not UTF-8, a pFiles past the
\* end, a buffer shorter than DROPFILES
HdropInputs ==
    { uri_list_to_hdrop([max_size |-> DefaultMaxSize], << 102, 105, 108, 101, 58, 47, 47, 47, 97, 32, 98 >>).val,
      << 20, 0, 0, 0, 0, 0, 0, 0, 0, 0, 0, 0, 0, 0, 0, 0, 1, 0, 0, 0, 0, 216, 0, 0, 0, 0 >>,
      << 20, 0, 0, 0, 0, 0, 0, 0, 0, 0, 0, 0, 0, 0, 0, 0, 1, 0, 0, 0, 0, 216, 0, 0, 97, 0, 0, 0, 0, 0 >>,
      << 20, 0, 0, 0, 0, 0, 0, 0, 0, 0, 0, 0, 0, 0, 0, 0, 0, 0, 0, 0, 47, 97, 0, 0 >>,
      << 20, 0, 0, 0, 0, 0, 0, 0, 0, 0, 0, 0, 0, 0, 0, 0, 0, 0, 0, 0, 47, 255, 0, 0 >>,
      << 40, 0, 0, 0, 0, 0, 0, 0, 0, 0, 0, 0, 0, 0, 0, 0, 1, 0, 0, 0, 0, 0 >>,
      << 20, 0, 0, 0 >> }

\* the longest sequence of UTF-16 code units that is enumerated
MaxUnits == 3

\* code units: "A", the euro sign (three bytes in UTF-8), the surrogate pair
\* of U+1F600, and the null unit
Units == { 65, 8364, 55357, 56832, 0 }

\* every sequence of at most n elements of S
SeqsUpTo(S, n) == UNION { [1..k -> S] : k \in 0..n }

\* CF_UNICODETEXT buffers: every sequence of at most MaxUnits units, as it
\* is and followed by the terminator
Utf16Inputs ==
    { UnitsToLeBytes(us) : us \in SeqsUpTo(Units, MaxUnits) }
        \cup { UnitsToLeBytes(us) \o << 0, 0 >> : us \in SeqsUpTo(Units, MaxUnits) }

\* the longest HTML text that is enumerated
MaxHtmlLen == 3

\* "a", "<", " ", ":" and a line feed
HtmlChars == { 97, 60, 32, 58, 10 }

\* HTML texts: every string of at most MaxHtmlLen of these characters
HtmlInputs == SeqsUpTo(HtmlChars, MaxHtmlLen)

\* the longest path that is enumerated, not counting its leading "/"
MaxPathLen == 2

\* "a", "/" and the reserved "%"
PathChars == { 97, 47, 37 }

\* absolute paths: "/" and at most MaxPathLen more characters
Paths == { << 47 >> \o t : t \in SeqsUpTo(PathChars, MaxPathLen) }

\* the numbers of URIs in a list: one path, several paths
PathCounts == { 1, 2 }

\* the file:// URIs of a sequence of paths, joined by CRLF
UriList(paths) == join([i \in 1..Len(paths) |-> FileScheme \o paths[i]], CrLf)

\* URI lists: every list of one or two of these paths
UriListInputs ==
    { UriList(ps) : ps \in UNION { [1..k -> Paths] : k \in PathCounts } }

ByteInputs ==
    StrInputs \cup UnicodeInputs \cup CfHtmlInputs \cup HdropInputs \cup Utf16Inputs
        \cup HtmlInputs \cup UriListInputs

\* the values a &str argument can take: the buffers that are valid UTF-8
StrArguments == { d \in ByteInputs : ValidUtf8(d) }

\* the variables of the loop detector
detectorVars == <<config, format_history, content_history, now, cleared, last>>

\* a converter from one of its constructors, next to an idle detector
\* LoopDetector::new()
ConvInit ==
    /\ converter \in Converters
    /\ input = <<>>
    /\ output = NoConversion
    /\ config = [window_ms |-> 500, max_history |-> 10, enable_content_hashing |-> TRUE]
    /\ format_history = <<>>
    /\ content_history = <<>>
    /\ now = 0
    /\ cleared = FALSE
    /\ last = Call("new", <<>>, "-")

TextToUnicode ==
    \E text \in StrArguments :
        /\ output = NoConversion
        /\ input' = text
        /\ output' = Conversion("text_to_unicode", text_to_unicode(converter, text))
        /\ UNCHANGED <<converter, detectorVars>>

UnicodeToText ==
    \E data \in ByteInputs :
        /\ output = NoConversion
        /\ input' = data
        /\ output' = Conversion("unicode_to_text", unicode_to_text(converter, data))
        /\ UNCHANGED <<converter, detectorVars>>

HtmlToCfHtml ==
    \E text \in StrArguments :
        /\ output = NoConversion
        /\ input' = text
        /\ output' = Conversion("html_to_cf_html", html_to_cf_html(converter, text))
        /\ UNCHANGED <<converter, detectorVars>>

CfHtmlToHtml ==
    \E data \in ByteInputs :
        /\ output = NoConversion
        /\ input' = data
        /\ output' = Conversion("cf_html_to_html", cf_html_to_html(converter, data))
        /\ UNCHANGED <<converter, detectorVars>>

UriListToHdrop ==
    \E uri_list \in StrArguments :
        /\ output = NoConversion
        /\ input' = uri_list
        /\ output' = Conversion("uri_list_to_hdrop", uri_list_to_hdrop(converter, uri_list))
        /\ UNCHANGED <<converter, detectorVars>>

HdropToUriList ==
    \E data \in ByteInputs :
        /\ output = NoConversion
        /\ input' = data
        /\ output' = Conversion("hdrop_to_uri_list", hdrop_to_uri_list(converter, data))
        /\ UNCHANGED <<converter, detectorVars>>

ConvNext ==
    \/ TextToUnicode
    \/ UnicodeToText
    \/ HtmlToCfHtml
    \/ CfHtmlToHtml
    \/ UriListToHdrop
    \/ HdropToUriList

ConvSpec == ConvInit /\ [][ConvNext]_vars

(***************************************************************************)
(* html_to_cf_html on long strings as a state machine: a converter built   *)
(* with a max_size above the default is applied to a string of n bytes.    *)
(* input keeps n, output the header and the length of the rest.            *)
(***************************************************************************)
\* a max_size given to FormatConverter::with_max_size
LargeMaxSize == 200000000

\* the lengths of the strings
MinLongLen == 99999750

MaxLongLen == 99999900

LongLengths == MinLongLen..MaxLongLen

LongHtmlInit ==
    /\ converter = [max_size |-> LargeMaxSize]
    /\ input = <<>>
    /\ output = NoConversion
    /\ config = [window_ms |-> 500, max_history |-> 10, enable_content_hashing |-> TRUE]
    /\ format_history = <<>>
    /\ content_history = <<>>
    /\ now = 0
    /\ cleared = FALSE
    /\ last = Call("new", <<>>, "-")

HtmlToCfHtmlOfLen ==
    \E n \in LongLengths :
        /\ output = NoConversion
        /\ input' = << n >>
        /\ output' = Conversion("html_to_cf_html", html_to_cf_html_of_len(converter, n))
        /\ UNCHANGED <<converter, detectorVars>>

LongHtmlNext == HtmlToCfHtmlOfLen

LongHtmlSpec == LongHtmlInit /\ [][LongHtmlNext]_vars

(***************************************************************************)
(* mime_to_rdp_formats as a state machine: a call applies the function to  *)
(* a list of MIME strings; it is a free function without state, so a       *)
(* behaviour makes one call.  The returned vector is carried in the result *)
(* form of the other operations.                                           *)
(***************************************************************************)
MaxMimes == 2

\* every MIME string the match names, and one it does not
MimeTypes ==
    { "text/plain", "text/plain;charset=utf-8", "UTF8_STRING", "STRING", "text/html",
      "text/rtf", "application/rtf", "image/png", "image/jpeg", "image/jpg",
      "image/gif", "image/bmp", "image/x-bmp", "text/uri-list",
      "x-special/gnome-copied-files", "audio/wav", "audio/x-wav", "application/json" }

MimeInputs == SeqsUpTo(MimeTypes, MaxMimes)

\* no call yet, next to an idle converter and an idle detector
MimeInit ==
    /\ converter = [max_size |-> DefaultMaxSize]
    /\ input = <<>>
    /\ output = NoConversion
    /\ config = [window_ms |-> 500, max_history |-> 10, enable_content_hashing |-> TRUE]
    /\ format_history = <<>>
    /\ content_history = <<>>
    /\ now = 0
    /\ cleared = FALSE
    /\ last = Call("new", <<>>, "-")

MimeToRdpFormats ==
    \E mime_types \in MimeInputs :
        /\ output = NoConversion
        /\ input' = mime_types
        /\ output' = Conversion("mime_to_rdp_formats", Ok(mime_to_rdp_formats(mime_types)))
        /\ UNCHANGED <<converter, detectorVars>>

MimeNext == MimeToRdpFormats

MimeSpec == MimeInit /\ [][MimeNext]_vars

(***************************************************************************)
(* FileDescriptor::parse and parse_list as a state machine: a call applies *)
(* one of them to a buffer; they are associated functions without state,   *)
(* so a behaviour makes one call.                                          *)
(***************************************************************************)
\* n zero bytes
Zeros(n) == [i \in 1..n |-> 0]

\* a FILEDESCRIPTORW record of 592 bytes with the given fields
FileDescriptorW(flags, attributes, creation, access, write, size_high, size_low, name) ==
    to_le_bytes(flags) \o Zeros(32) \o to_le_bytes(attributes)
        \o creation \o access \o write
        \o to_le_bytes(size_high) \o to_le_bytes(size_low)
        \o UnitsToLeBytes(name) \o Zeros(520 - 2 * Len(name))

\* every value of dwFlags made of the five flags
FlagValues ==
    { a + c + x + w + z : a \in {0, ATTRIBUTES}, c \in {0, CREATETIME},
                          x \in {0, ACCESSTIME}, w \in {0, WRITESTIME},
                          z \in {0, FILESIZE} }

\* file names as code units: none, "a.txt", an unpaired surrogate
FileNames == { <<>>, << 97, 46, 116, 120, 116 >>, << 97, 55296 >> }

\* records: every flag value with every name, over fixed times and sizes;
\* a record with a flag bit outside the five; one whose name fills all 260
\* units; 592 zero bytes
RecordInputs ==
    { FileDescriptorW(f, 128, << 1, 1, 1, 1, 1, 1, 1, 1 >>, << 2, 2, 2, 2, 2, 2, 2, 2 >>,
                      << 3, 3, 3, 3, 3, 3, 3, 3 >>, 1, 2, n)
        : f \in FlagValues, n \in FileNames }
      \cup { FileDescriptorW(4 + FILESIZE, 16, Zeros(8), Zeros(8), Zeros(8), 0, 7, << 98 >>),
             FileDescriptorW(0, 0, Zeros(8), Zeros(8), Zeros(8), 0, 0, [i \in 1..260 |-> 97]),
             Zeros(592) }

\* buffers that are no whole record: empty, one byte short, one byte more
OddSizeInputs ==
    { <<>>, Zeros(591),
      FileDescriptorW(FILESIZE, 128, Zeros(8), Zeros(8), Zeros(8), 0, 5, << 97 >>) \o << 9 >> }

\* FileGroupDescriptorW buffers: cItems 0, 1, 2 with as many records; cItems
\* 2 with one record; a record too many; a second record with a bad name;
\* less than four bytes
ListInputs ==
    LET r1 == FileDescriptorW(FILESIZE, 128, Zeros(8), Zeros(8), Zeros(8), 0, 5, << 97 >>)
        r2 == FileDescriptorW(CREATETIME, 16, << 1, 1, 1, 1, 1, 1, 1, 1 >>, Zeros(8),
                              Zeros(8), 0, 0, << 98 >>)
        r3 == FileDescriptorW(0, 0, Zeros(8), Zeros(8), Zeros(8), 0, 0, << 56320 >>)
    IN  { to_le_bytes(0),
          to_le_bytes(0) \o r1,
          to_le_bytes(1) \o r1,
          to_le_bytes(2) \o r1 \o r2,
          to_le_bytes(2) \o r1,
          to_le_bytes(1) \o r1 \o r2,
          to_le_bytes(2) \o r1 \o r3,
          << 1, 0 >> }

DescriptorInputs == RecordInputs \cup OddSizeInputs \cup ListInputs

\* no call yet, next to an idle converter and an idle detector
DescriptorInit ==
    /\ converter = [max_size |-> DefaultMaxSize]
    /\ input = <<>>
    /\ output = NoConversion
    /\ config = [window_ms |-> 500, max_history |-> 10, enable_content_hashing |-> TRUE]
    /\ format_history = <<>>
    /\ content_history = <<>>
    /\ now = 0
    /\ cleared = FALSE
    /\ last = Call("new", <<>>, "-")

Parse ==
    \E data \in DescriptorInputs :
        /\ output = NoConversion
        /\ input' = data
        /\ output' = Conversion("parse", parse(data))
        /\ UNCHANGED <<converter, detectorVars>>

ParseList ==
    \E data \in DescriptorInputs :
        /\ output = NoConversion
        /\ input' = data
        /\ output' = Conversion("parse_list", parse_list(data))
        /\ UNCHANGED <<converter, detectorVars>>

DescriptorNext ==
    \/ Parse
    \/ ParseList

DescriptorSpec == DescriptorInit /\ [][DescriptorNext]_vars

(***************************************************************************)
(* The image functions as a state machine: a call applies one of them to   *)
(* an image or a buffer.  They are free functions without state, so a      *)
(* behaviour makes one call.                                               *)
(***************************************************************************)
\* the largest width and height of the images that are enumerated
MaxDim == 2

\* two RGBA pixels with four different channel values each
Palette == { << 1, 2, 3, 4 >>, << 50, 100, 150, 255 >> }

\* every RGBA image of at most MaxDim x MaxDim pixels of the palette, the
\* images without pixels (width or height 0) included
RgbaImages ==
    UNION { UNION { { ImageRgba8(w, h, Concat(ps)) : ps \in [1..(w * h) -> Palette] }
                    : h \in 0..MaxDim }
            : w \in 0..MaxDim }

\* an RGB image of 2 x 1 pixels
RgbImages == { ImageRgb8(2, 1, << 1, 2, 3, 50, 100, 150 >>) }

ImageInputs == RgbaImages \cup RgbImages

\* a BITMAPINFOHEADER with the given biWidth, biHeight and biBitCount
BitmapInfoHeader(bi_width, bi_height, bi_bit_count, bi_size_image) ==
    put_u32_le(40) \o put_i32_le(bi_width) \o put_i32_le(bi_height)
        \o put_u16_le(1) \o put_u16_le(bi_bit_count) \o put_u32_le(0)
        \o put_u32_le(bi_size_image)
        \o put_i32_le(0) \o put_i32_le(0) \o put_u32_le(0) \o put_u32_le(0)

\* DIB buffers: the encoding of every image; a bottom-up 32-bit DIB of
\* 1 x 2; a bottom-up and a top-down 24-bit DIB of 1 x 2 with padded rows;
\* a 32-bit DIB with too few pixel bytes; a DIB of 8 bits per pixel; a header
\* whose biSize is 12; a 32-bit DIB of 1 x 1 behind a BITMAPV4HEADER, whose
\* biSize is 108; a top-down 24-bit DIB of 2 x 2 and a bottom-up one of 2 x 1
\* with padded rows; a 24-bit DIB of 1 x 2 with one byte too few; a 24-bit
\* DIB of one row whose width 1431655766 makes width * 3 overflow a u32
DibInputs ==
    { create_dib_from_image(image).val : image \in ImageInputs }
        \cup { BitmapInfoHeader(1, 2, 32, 8) \o << 3, 2, 1, 4, 150, 100, 50, 255 >>,
               BitmapInfoHeader(1, 2, 24, 8) \o << 3, 2, 1, 0, 150, 100, 50, 0 >>,
               BitmapInfoHeader(1, -2, 24, 8) \o << 3, 2, 1, 0, 150, 100, 50, 0 >>,
               BitmapInfoHeader(2, -2, 32, 16) \o << 3, 2, 1, 4 >>,
               BitmapInfoHeader(1, -1, 8, 1) \o << 7 >>,
               << 12, 0, 0, 0 >> \o SubSeq(BitmapInfoHeader(1, -1, 32, 4), 5, 40)
                   \o << 3, 2, 1, 4 >>,
               << 108, 0, 0, 0 >> \o SubSeq(BitmapInfoHeader(1, -1, 32, 4), 5, 40)
                   \o Zeros(68) \o << 3, 2, 1, 4 >>,
               BitmapInfoHeader(2, -2, 24, 16)
                   \o << 3, 2, 1, 6, 5, 4, 0, 0, 150, 100, 50, 9, 8, 7, 0, 0 >>,
               BitmapInfoHeader(2, 1, 24, 8) \o << 3, 2, 1, 6, 5, 4, 0, 0 >>,
               BitmapInfoHeader(1, 2, 24, 8) \o << 3, 2, 1, 0, 150, 100, 50 >>,
               BitmapInfoHeader(1431655766, -1, 24, 4) \o << 3, 2, 1, 0 >> }

\* BMP files: every DIB above behind a file header
BmpInputs == { dib_to_bmp(dib).val : dib \in { d \in DibInputs : Len(d) >= 40 } }

\* the buffers the image functions are called with: DIBs, BMP files, and
\* buffers that are neither
ImageByteInputs ==
    DibInputs \cup BmpInputs \cup StrInputs \cup CfHtmlInputs \cup HdropInputs

\* no call yet, next to an idle converter and an idle detector
ImageInit ==
    /\ converter = [max_size |-> DefaultMaxSize]
    /\ input = <<>>
    /\ output = NoConversion
    /\ config = [window_ms |-> 500, max_history |-> 10, enable_content_hashing |-> TRUE]
    /\ format_history = <<>>
    /\ content_history = <<>>
    /\ now = 0
    /\ cleared = FALSE
    /\ last = Call("new", <<>>, "-")

CreateDibFromImage ==
    \E image \in ImageInputs :
        /\ output = NoConversion
        /\ input' = image
        /\ output' = Conversion("create_dib_from_image", create_dib_from_image(image))
        /\ UNCHANGED <<converter, detectorVars>>

ParseDibToImage ==
    \E dib_data \in ImageByteInputs, overflow_checks \in BOOLEAN :
        /\ output = NoConversion
        /\ input' = dib_data
        /\ output' = Conversion("parse_dib_to_image",
                                parse_dib_to_image(dib_data, overflow_checks))
        /\ UNCHANGED <<converter, detectorVars>>

DibToBmp ==
    \E dib_data \in ImageByteInputs :
        /\ output = NoConversion
        /\ input' = dib_data
        /\ output' = Conversion("dib_to_bmp", dib_to_bmp(dib_data))
        /\ UNCHANGED <<converter, detectorVars>>

BmpToDib ==
    \E bmp_data \in ImageByteInputs :
        /\ output = NoConversion
        /\ input' = bmp_data
        /\ output' = Conversion("bmp_to_dib", bmp_to_dib(bmp_data))
        /\ UNCHANGED <<converter, detectorVars>>

DibDimensions ==
    \E dib_data \in ImageByteInputs :
        /\ output = NoConversion
        /\ input' = dib_data
        /\ output' = Conversion("dib_dimensions", dib_dimensions(dib_data))
        /\ UNCHANGED <<converter, detectorVars>>

ImageNext ==
    \/ CreateDibFromImage
    \/ ParseDibToImage
    \/ DibToBmp
    \/ BmpToDib
    \/ DibDimensions

ImageSpec == ImageInit /\ [][ImageNext]_vars

(***************************************************************************)
(* Properties of the loop detector.                                        *)
(***************************************************************************)
Last(q) == q[Len(q)]

\* every check, for every input, answers false
AllChecksFalse ==
    /\ \A f \in FormatLists : ~would_cause_loop(f)
    /\ \A m \in MimeLists : ~would_cause_loop_mime(m)
    /\ \A c \in Contents, s \in ClipboardSource : ~would_cause_content_loop(c, s)

\* no entry of q is older than 2 * window_ms
NoneOlderThanTwiceWindow(q) ==
    \A i \in 1..Len(q) : duration_since(now, q[i].timestamp) <= 2 * config.window_ms

\* the most recent call was a record call that inserted an entry, and no time
\* has passed since (record_content inserts only when content hashing is enabled)
JustInserted ==
    \/ last.op \in {"record_formats", "record_mime_types"}
    \/ last.op = "record_content" /\ config.enable_content_hashing

\* C1 (as claimed): in every configuration, right after record_formats(F, Rdp),
\* with no time elapsed and no other call, would_cause_loop(F) is true.
C1_RecordThenCheck_AnyConfig ==
    (last.op = "record_formats" /\ last.source = Rdp) => would_cause_loop(last.arg)

\* C1 (amended): in every configuration with max_history >= 1, right after
\* record_formats(F, Rdp), with no time elapsed and no other call,
\* would_cause_loop(F) is true.
C1_RecordThenCheck ==
    (config.max_history >= 1 /\ last.op = "record_formats" /\ last.source = Rdp)
        => would_cause_loop(last.arg)

\* C1 witness: record_formats(<< unicode_text >>, Rdp) has just run on a queue
\* that already held an entry, and the check is true
C1_Witness ==
    /\ config.max_history >= 1
    /\ last = Call("record_formats", << unicode_text >>, Rdp)
    /\ Len(format_history) = 2
    /\ would_cause_loop(<< unicode_text >>)

\* C2: when the newest entry of a queue (the last operation recorded into it)
\* is older than window_ms, every check on that queue answers false, although
\* the entry is still in the queue and clear() was not called.
C2_WindowExpiry ==
    /\ (format_history # <<>>
          /\ duration_since(now, Last(format_history).timestamp) > config.window_ms)
        => /\ \A f \in FormatLists : ~would_cause_loop(f)
           /\ \A m \in MimeLists : ~would_cause_loop_mime(m)
    /\ (content_history # <<>>
          /\ duration_since(now, Last(content_history).timestamp) > config.window_ms)
        => \A c \in Contents, s \in ClipboardSource : ~would_cause_content_loop(c, s)

\* C2 witness: << unicode_text >> recorded from Rdp is still the newest entry,
\* more than window_ms old, no clear() since, and the check is false
C2_Witness ==
    /\ ~cleared
    /\ last.op = "tick"
    /\ format_history # <<>>
    /\ Last(format_history).hash = hash_formats(<< unicode_text >>)
    /\ Last(format_history).source = Rdp
    /\ duration_since(now, Last(format_history).timestamp) > config.window_ms
    /\ ~would_cause_loop(<< unicode_text >>)

\* C3: from clear() until the next record operation both queues are empty and
\* every check answers false.
C3_ClearResets ==
    cleared =>
        /\ format_history = <<>>
        /\ content_history = <<>>
        /\ AllChecksFalse

\* C3 witness: clear() has just been called, after time had passed, in a
\* configuration that keeps entries
C3_Witness ==
    /\ cleared
    /\ last.op = "clear"
    /\ now > 0
    /\ config.max_history >= 1
    /\ config.enable_content_hashing
    /\ ~would_cause_loop(<< unicode_text >>)

\* C4: a check answers false when every entry of its queue with the checked
\* hash was recorded with the source the check is made for (Local for
\* would_cause_loop, the passed source for would_cause_content_loop), however
\* recent the entries are.
C4_SameSourceAllowed ==
    /\ \A f \in FormatLists :
          (\A i \in 1..Len(format_history) :
              format_history[i].hash = hash_formats(f)
                  => format_history[i].source = Local)
          => ~would_cause_loop(f)
    /\ \A c \in Contents, s \in ClipboardSource :
          (\A i \in 1..Len(content_history) :
              content_history[i].hash = hash_content(c)
                  => content_history[i].source = s)
          => ~would_cause_content_loop(c, s)

\* C4 witness: record_formats(<< unicode_text >>, Local) has just run for the
\* second time, the list was never recorded from Rdp, and the check is false
C4_Witness ==
    /\ last = Call("record_formats", << unicode_text >>, Local)
    /\ Len(format_history) = 2
    /\ \A i \in 1..Len(format_history) :
          /\ format_history[i].hash = hash_formats(<< unicode_text >>)
          /\ format_history[i].source = Local
    /\ ~would_cause_loop(<< unicode_text >>)

\* C5: neither queue ever holds more than max_history entries.
C5_BoundedHistory ==
    /\ Len(format_history) <= config.max_history
    /\ Len(content_history) <= config.max_history

\* C5 witness: both queues are full and every entry carries the current
\* instant, later than the start: the entries recorded before were removed
C5_Witness ==
    /\ JustInserted
    /\ config.max_history = 2
    /\ Len(format_history) = 2
    /\ Len(content_history) = 2
    /\ format_history[1].timestamp = now
    /\ content_history[1].timestamp = now
    /\ now > 0

\* C6 (as claimed): in every reachable state no entry of either queue is older
\* than 2 * window_ms.
C6_NeverOlderThanTwiceWindow ==
    /\ NoneOlderThanTwiceWindow(format_history)
    /\ NoneOlderThanTwiceWindow(content_history)

\* C6 (amended): in the state right after a record call that inserts an entry
\* (before any time passes), no entry of either queue is older than
\* 2 * window_ms.
C6_TrimmedAfterInsert ==
    JustInserted =>
        /\ NoneOlderThanTwiceWindow(format_history)
        /\ NoneOlderThanTwiceWindow(content_history)

\* C6 witness: more than 2 * window_ms after the start an entry has just been
\* inserted into the content queue, the format queue still holds an older
\* entry, and none is older than 2 * window_ms
C6_Witness ==
    /\ last.op = "record_content"
    /\ config.enable_content_hashing
    /\ now > 2 * config.window_ms
    /\ format_history # <<>>
    /\ Last(content_history).timestamp = now
    /\ format_history[1].timestamp < now
    /\ NoneOlderThanTwiceWindow(format_history)
    /\ NoneOlderThanTwiceWindow(content_history)

\* C7: with enable_content_hashing false, would_cause_content_loop answers
\* false for every data and source, in every reachable state.
C7_DisabledContentCheck ==
    ~config.enable_content_hashing
        => \A c \in Contents, s \in ClipboardSource : ~would_cause_content_loop(c, s)

\* C7 witness: content hashing is disabled, record_content(Hi, Rdp) has just
\* been called, and the check of the same data from Local is false
C7_Witness ==
    /\ ~config.enable_content_hashing
    /\ last = Call("record_content", <<72, 105>>, Rdp)
    /\ ~would_cause_content_loop(<<72, 105>>, Local)

\* C8 (as claimed): when record_formats(F1, Rdp) is the only recorded
\* operation, would_cause_loop(F2) is false for every F2 # F1; when
\* record_content(D1, Rdp) is the only one, would_cause_content_loop(D2, Local)
\* is false for every D2 # D1.
C8_DifferentNeverLoops ==
    /\ (/\ last.op = "record_formats"
        /\ last.source = Rdp
        /\ Len(format_history) <= 1
        /\ content_history = <<>>)
        => \A f2 \in FormatLists \ {last.arg} : ~would_cause_loop(f2)
    /\ (/\ last.op = "record_content"
        /\ last.source = Rdp
        /\ Len(content_history) <= 1
        /\ format_history = <<>>)
        => \A d2 \in Contents \ {last.arg} : ~would_cause_content_loop(d2, Local)

\* queue q holds, at any position, an entry of age at most window_ms that
\* was recorded by the source opposite to current_source with hash h
HoldsRecentOpposite(q, h, current_source) ==
    \E i \in 1..Len(q) :
        /\ now - q[i].timestamp <= config.window_ms
        /\ q[i].source # current_source
        /\ q[i].hash = h

\* C19: the early exit of the history scan is safe: in every reachable
\* state each would_cause_* check returns true exactly when its queue holds,
\* at any position, an entry of age at most window_ms, recorded by the
\* source opposite to the one the check is made for, with the checked hash.
C19_EarlyExitSafe ==
    /\ \A f \in FormatLists :
           would_cause_loop(f)
               <=> HoldsRecentOpposite(format_history, hash_formats(f), Local)
    /\ \A m \in MimeLists :
           would_cause_loop_mime(m)
               <=> HoldsRecentOpposite(format_history, hash_mime_types(m), Rdp)
    /\ \A c \in Contents, s \in ClipboardSource :
           would_cause_content_loop(c, s)
               <=> HoldsRecentOpposite(content_history, hash_content(c), s)

\* the scan stops at the newest entry, which is older than window_ms, and
\* so never reads the entry before it, recorded by Rdp with the checked hash
C19_Witness ==
    /\ Len(format_history) = 2
    /\ now - format_history[2].timestamp > config.window_ms
    /\ format_history[1].source = Rdp
    /\ format_history[1].hash = hash_formats(<< unicode_text >>)
    /\ ~would_cause_loop(<< unicode_text >>)

\* queue q after a maintenance pass at instant t: what is left when the
\* entries before the first one of age at most 2 * window_ms are gone, and
\* of these the newest max_history
AfterMaintenance(q, t) ==
    LET young == { i \in 1..Len(q) : t - q[i].timestamp <= 2 * config.window_ms }
        first == IF young = {} THEN Len(q) + 1
                 ELSE CHOOSE i \in young : \A j \in young : i <= j
        kept  == Len(q) + 1 - first
        size  == IF kept <= config.max_history THEN kept ELSE config.max_history
    IN  SubSeq(q, Len(q) + 1 - size, Len(q))

\* the step is a call of record_formats, record_mime_types or record_content
\* that appends one entry {hash, source, now} to its queue and then runs
\* maintenance on both queues
AppendsThenMaintains ==
    LET entry(h) == [hash |-> h, source |-> last'.source, timestamp |-> now]
    IN  CASE last'.op = "record_formats" ->
                 /\ format_history' =
                        AfterMaintenance(Append(format_history,
                                                entry(hash_formats(last'.arg))), now)
                 /\ content_history' = AfterMaintenance(content_history, now)
          [] last'.op = "record_mime_types" ->
                 /\ format_history' =
                        AfterMaintenance(Append(format_history,
                                                entry(hash_mime_types(last'.arg))), now)
                 /\ content_history' = AfterMaintenance(content_history, now)
          [] last'.op = "record_content" ->
                 /\ content_history' =
                        AfterMaintenance(Append(content_history,
                                                entry(hash_content(last'.arg))), now)
                 /\ format_history' = AfterMaintenance(format_history, now)
          [] OTHER -> FALSE

IsRecordCall(op) == op \in { "record_formats", "record_mime_types", "record_content" }

\* C20 as stated: each call of record_formats, record_mime_types and
\* record_content appends exactly one entry {hash, source, now} to its queue
\* and then runs maintenance on both queues (age eviction from the front,
\* then the trim to max_history), in every configuration.
C20_RecordAppendsThenMaintains_EveryConfig ==
    [][ IsRecordCall(last'.op) => AppendsThenMaintains ]_vars

\* C20, amended: each call of record_formats and record_mime_types, and each
\* call of record_content when enable_content_hashing is true, appends
\* exactly one entry {hash, source, now} to its queue and then runs
\* maintenance on both queues; a call of record_content when
\* enable_content_hashing is false changes neither queue.
C20_RecordAppendsThenMaintains ==
    [][ IsRecordCall(last'.op) =>
            IF last'.op = "record_content" /\ ~config.enable_content_hashing
            THEN UNCHANGED <<format_history, content_history>>
            ELSE AppendsThenMaintains ]_vars

\* right after a record_formats call on a full queue: the new entry is the
\* newest, an older entry is still there, and the length is max_history
C20_Witness ==
    /\ last.op = "record_formats"
    /\ config.max_history = 2
    /\ Len(format_history) = 2
    /\ format_history[2] =
           [hash |-> hash_formats(last.arg), source |-> last.source, timestamp |-> now]
    /\ format_history[1].timestamp < now

\* a is what is left of b when entries are removed from the front of b
IsSuffix(a, b) ==
    /\ Len(a) <= Len(b)
    /\ a = SubSeq(b, Len(b) - Len(a) + 1, Len(b))

\* the timestamps of q do not decrease from front to back
TimeOrdered(q) ==
    \A i, j \in 1..Len(q) : i <= j => q[i].timestamp <= q[j].timestamp

\* in this step each queue loses entries at its front only, after the entry
\* of a record call, stamped now, has been put at the back of its queue
FrontRemovalOnly ==
    LET entry(h) == [hash |-> h, source |-> last'.source, timestamp |-> now]
    IN  CASE last'.op = "record_formats" ->
                 /\ IsSuffix(format_history',
                             Append(format_history, entry(hash_formats(last'.arg))))
                 /\ IsSuffix(content_history', content_history)
          [] last'.op = "record_mime_types" ->
                 /\ IsSuffix(format_history',
                             Append(format_history, entry(hash_mime_types(last'.arg))))
                 /\ IsSuffix(content_history', content_history)
          [] last'.op = "record_content" /\ config.enable_content_hashing ->
                 /\ IsSuffix(content_history',
                             Append(content_history, entry(hash_content(last'.arg))))
                 /\ IsSuffix(format_history', format_history)
          [] last'.op = "clear" ->
                 format_history' = <<>> /\ content_history' = <<>>
          [] OTHER ->
                 /\ format_history' = format_history
                 /\ content_history' = content_history

\* C21: in every reachable state each queue is ordered by insertion time,
\* and every step leaves of each queue a contiguous suffix of what was
\* recorded into it since the last clear(): a record call puts its entry at
\* the back, maintenance removes at the front only, clear() empties, so a
\* newer entry is never evicted while an older one is kept.
C21_OrderedSuffix ==
    /\ [](TimeOrdered(format_history) /\ TimeOrdered(content_history))
    /\ [][FrontRemovalOnly]_vars

\* right after a record_mime_types call the queue is full and holds two
\* entries recorded at different instants, the newer one now
C21_Witness ==
    /\ last.op = "record_mime_types"
    /\ config.max_history = 2
    /\ Len(format_history) = 2
    /\ format_history[1].timestamp > 0
    /\ format_history[1].timestamp < format_history[2].timestamp
    /\ format_history[2].timestamp = now

\* how often entry e occurs in queue q
Occurrences(e, q) == Cardinality({ i \in 1..Len(q) : q[i] = e })

\* the entry the record call of this step pushes, as a queue of one entry;
\* empty when the step is no record call for that queue
PushedOnFormats ==
    IF last'.op = "record_formats"
    THEN << [hash |-> hash_formats(last'.arg), source |-> last'.source, timestamp |-> now'] >>
    ELSE IF last'.op = "record_mime_types"
    THEN << [hash |-> hash_mime_types(last'.arg), source |-> last'.source, timestamp |-> now'] >>
    ELSE <<>>

PushedOnContent ==
    IF last'.op = "record_content" /\ config.enable_content_hashing
    THEN << [hash |-> hash_content(last'.arg), source |-> last'.source, timestamp |-> now'] >>
    ELSE <<>>

\* no entry comes into queue q in this step but the one pushed
NoEntryComesBack(q, qNext, pushed) ==
    \A i \in 1..Len(qNext) :
        Occurrences(qNext[i], qNext) <= Occurrences(qNext[i], q \o pushed)

\* a check that answers true after this step answered true before it, or the
\* step recorded that hash for the opposite source
TurnsTrueByRecordOnly ==
    /\ \A f \in FormatLists :
           WouldCauseLoop(config', now', format_history', f)
           => \/ WouldCauseLoop(config, now, format_history, f)
              \/ /\ PushedOnFormats # <<>>
                 /\ PushedOnFormats[1].hash = hash_formats(f)
                 /\ PushedOnFormats[1].source = Rdp
    /\ \A m \in MimeLists :
           WouldCauseLoopMime(config', now', format_history', m)
           => \/ WouldCauseLoopMime(config, now, format_history, m)
              \/ /\ PushedOnFormats # <<>>
                 /\ PushedOnFormats[1].hash = hash_mime_types(m)
                 /\ PushedOnFormats[1].source = Local
    /\ \A c \in Contents, s \in ClipboardSource :
           WouldCauseContentLoop(config', now', content_history', c, s)
           => \/ WouldCauseContentLoop(config, now, content_history, c, s)
              \/ /\ PushedOnContent # <<>>
                 /\ PushedOnContent[1].hash = hash_content(c)
                 /\ PushedOnContent[1].source # s

\* C22: an evicted entry never becomes live again: the only entry a step
\* brings into a queue is the one a record call of that step pushes, stamped
\* with the instant of the call, so an entry removed by age, by the
\* max_history trim or by clear() is not put back; and a check turns from
\* false to true only through a record call of that hash.
C22_NoRevival ==
    [][ /\ NoEntryComesBack(format_history, format_history', PushedOnFormats)
        /\ NoEntryComesBack(content_history, content_history', PushedOnContent)
        /\ TurnsTrueByRecordOnly ]_vars

\* with max_history = 0 the entry of a record_formats call by Rdp has been
\* evicted by the trim of the same call, and the check does not match it
C22_Witness ==
    /\ last.op = "record_formats"
    /\ last.source = Rdp
    /\ config.max_history = 0
    /\ format_history = <<>>
    /\ ~would_cause_loop(last.arg)

\* the format queue holds an entry with hash h recorded by source s
RecordedBy(h, s) ==
    \E i \in 1..Len(format_history) :
        format_history[i].hash = h /\ format_history[i].source = s

\* would_cause_loop matches only entries recorded by Rdp, and
\* would_cause_loop_mime only entries recorded by Local
OppositeDirections ==
    /\ \A f \in FormatLists : would_cause_loop(f) => RecordedBy(hash_formats(f), Rdp)
    /\ \A m \in MimeLists : would_cause_loop_mime(m) => RecordedBy(hash_mime_types(m), Local)

\* C23 as stated: would_cause_loop(F) matches only entries recorded with
\* source Rdp and would_cause_loop_mime(M) only entries recorded with source
\* Local; so right after record_mime_types(M, Local) would_cause_loop_mime(M)
\* is true, and right after record_mime_types(M, Rdp) it is false.
C23_OppositeDirections_AnyState ==
    /\ OppositeDirections
    /\ (last.op = "record_mime_types" /\ last.source = Local)
           => would_cause_loop_mime(last.arg)
    /\ (last.op = "record_mime_types" /\ last.source = Rdp)
           => ~would_cause_loop_mime(last.arg)

\* C23, amended: would_cause_loop(F) matches only entries recorded with
\* source Rdp and would_cause_loop_mime(M) only entries recorded with source
\* Local; so right after record_mime_types(M, Local), when max_history >= 1,
\* would_cause_loop_mime(M) is true, and right after record_mime_types(M, Rdp),
\* when the queue holds no entry of M that Local recorded within window_ms,
\* it is false.
C23_OppositeDirections ==
    /\ OppositeDirections
    /\ (last.op = "record_mime_types" /\ last.source = Local /\ config.max_history >= 1)
           => would_cause_loop_mime(last.arg)
    /\ (/\ last.op = "record_mime_types"
        /\ last.source = Rdp
        /\ ~\E i \in 1..Len(format_history) :
               /\ format_history[i].hash = hash_mime_types(last.arg)
               /\ format_history[i].source = Local
               /\ now - format_history[i].timestamp <= config.window_ms)
           => ~would_cause_loop_mime(last.arg)

\* record_mime_types(M, Local) has just run on a queue that held an entry of
\* Rdp: would_cause_loop_mime(M) is true and would_cause_loop_mime of another
\* list is false
C23_Witness ==
    /\ last = Call("record_mime_types", << TextPlain >>, Local)
    /\ Len(format_history) = 2
    /\ format_history[1].source = Rdp
    /\ would_cause_loop_mime(<< TextPlain >>)
    /\ ~would_cause_loop_mime(<< TextPlain, TextHtml >>)

\* the checks on the format queue answer after the step what they answered
\* before it
FormatChecksUnchanged ==
    /\ \A f \in FormatLists :
           WouldCauseLoop(config', now', format_history', f)
               <=> WouldCauseLoop(config, now, format_history, f)
    /\ \A m \in MimeLists :
           WouldCauseLoopMime(config', now', format_history', m)
               <=> WouldCauseLoopMime(config, now, format_history, m)

\* the checks on the content queue answer after the step what they answered
\* before it
ContentChecksUnchanged ==
    \A c \in Contents, s \in ClipboardSource :
        WouldCauseContentLoop(config', now', content_history', c, s)
            <=> WouldCauseContentLoop(config, now, content_history, c, s)

\* C24: the two queues do not interfere: a call of record_content, with its
\* maintenance pass over both queues, changes the result of no
\* would_cause_loop or would_cause_loop_mime check made at the same instant,
\* and a call of record_formats or record_mime_types changes the result of
\* no would_cause_content_loop check.
C24_QueuesIndependent ==
    [][ /\ last'.op = "record_content" => FormatChecksUnchanged
        /\ last'.op \in {"record_formats", "record_mime_types"} => ContentChecksUnchanged ]_vars

\* record_content has just pushed an entry and run maintenance, later than
\* the entry of Rdp in the format queue was recorded, and would_cause_loop
\* still matches that entry
C24_Witness ==
    /\ last.op = "record_content"
    /\ config.enable_content_hashing
    /\ content_history # <<>>
    /\ format_history # <<>>
    /\ format_history[Len(format_history)].timestamp < now
    /\ would_cause_loop(<< unicode_text >>)

(***************************************************************************)
(* Properties of the shared queue (under SharedQueueSpec).                 *)
(***************************************************************************)
\* C25: format-list records and MIME-list records share one queue and one
\* max_history budget: the queue never holds more than max_history entries
\* of both kinds together, so after record_formats(F, Rdp) and max_history
\* calls of record_mime_types, all within window_ms, would_cause_loop(F) is
\* false.
C25_SharedBudget ==
    /\ Len(format_history) <= config.max_history
    /\ (/\ output # NoConversion
        /\ output.res.val.calls = config.max_history
        /\ now - output.res.val.start <= config.window_ms)
           => ~would_cause_loop(input)

(***************************************************************************)
(* Properties of the format converter (under ConvSpec).                    *)
(***************************************************************************)
\* the paths the scan of hdrop_to_uri_list finds in a buffer it accepts
HdropScan(data) ==
    LET p_files   == from_le_bytes(SubSeq(data, 1, 4))
        f_wide    == from_le_bytes(SubSeq(data, 17, 20)) # 0
        file_data == SubSeq(data, p_files + 1, Len(data))
    IN  [f_wide |-> f_wide,
         paths  |-> IF f_wide THEN ScanWide(file_data, 0) ELSE ScanAnsi(file_data, 0)]

\* the path decodes: it is pushed to the result
Decodable(f_wide, path) == IF f_wide THEN ValidUtf16(path) ELSE ValidUtf8(path)

\* C9: max_size is applied by every one of the six operations: a call whose
\* input is longer than the max_size of the converter is refused, whichever
\* operation it is.
C9_MaxSizeAppliedByAll ==
    (output.op # "none" /\ Len(input) > converter.max_size)
        => ~output.res.ok

\* C10: no codec swallows a malformed element: when hdrop_to_uri_list
\* returns Ok, every path it scanned in the buffer was decodable, so none
\* was left out of the result.
C10_NoSilentSkip ==
    (output.op = "hdrop_to_uri_list" /\ output.res.ok)
        => LET scan == HdropScan(input)
           IN  \A i \in 1..Len(scan.paths) : Decodable(scan.f_wide, scan.paths[i])

\* the code units of a buffer without its last one
TextUnits(data) ==
    LET utf16 == LeBytesToUnits(data) IN SubSeq(utf16, 1, Len(utf16) - 1)

\* data is b ++ [0, 0] for an even-length b that is valid UTF-16LE and has
\* no null code unit
TerminatedText(data) ==
    /\ Len(data) % 2 = 0
    /\ Len(data) >= 2
    /\ data[Len(data) - 1] = 0 /\ data[Len(data)] = 0
    /\ ValidUtf16(TextUnits(data))
    /\ \A i \in 1..Len(TextUnits(data)) : TextUnits(data)[i] # 0

\* C11 as stated: for every b ++ [0, 0] within max_size, with b even-length,
\* valid UTF-16LE and null-free, unicode_to_text succeeds and text_to_unicode
\* of its result is b ++ [0, 0] again.
C11_TextRoundTrip_WireSize ==
    (output.op = "unicode_to_text" /\ TerminatedText(input)
        /\ Len(input) <= converter.max_size)
        => /\ output.res.ok
           /\ text_to_unicode(converter, output.res.val) = Ok(input)

\* C11, amended: the round trip gives b ++ [0, 0] back when the buffer and
\* also the UTF-8 form of the decoded text are within max_size (the encoder
\* compares the UTF-8 length of the text with max_size, and a code unit of
\* two bytes can take three bytes in UTF-8).
C11_TextRoundTrip ==
    (output.op = "unicode_to_text" /\ TerminatedText(input)
        /\ Len(input) <= converter.max_size
        /\ Len(Str(DecodeUtf16(TextUnits(input)))) <= converter.max_size)
        => /\ output.res.ok
           /\ text_to_unicode(converter, output.res.val) = Ok(input)

\* a euro sign and a surrogate pair, terminated, made the round trip through
\* a converter whose max_size is exactly the length of the buffer
C11_Witness ==
    /\ output.op = "unicode_to_text"
    /\ TerminatedText(input)
    /\ TextUnits(input) = << 8364, 55357, 56832 >>
    /\ converter.max_size = Len(input)
    /\ output.res.ok
    /\ text_to_unicode(converter, output.res.val) = Ok(input)

\* an ASCII string without carriage return or line feed
AsciiWithoutCrLf(text) ==
    \A i \in 1..Len(text) : text[i] < 128 /\ text[i] # 13 /\ text[i] # 10

\* C12: HTML round trip: for every ASCII string s without CR or LF, the
\* empty string included, that html_to_cf_html encodes, cf_html_to_html of
\* the encoded buffer succeeds and returns s.
C12_HtmlRoundTrip ==
    (output.op = "html_to_cf_html" /\ AsciiWithoutCrLf(input) /\ output.res.ok)
        => cf_html_to_html(converter, output.res.val) = Ok(input)

\* an ASCII path without space, "#", "%" or "?"
UnreservedPath(path) ==
    \A i \in 1..Len(path) : path[i] < 128 /\ path[i] \notin { 32, 35, 37, 63 }

\* the lists of one or several file:// URIs of such paths, joined by CRLF
UnreservedUriLists ==
    { UriList(ps) :
        ps \in UNION { [1..k -> { q \in Paths : UnreservedPath(q) }] : k \in PathCounts } }

\* C13: file-path-list round trip: for every list x of one or several
\* absolute file:// URIs with ASCII paths free of space, "#", "%" and "?",
\* joined by CRLF, uri_list_to_hdrop succeeds and hdrop_to_uri_list of its
\* result is Ok(x).
C13_HdropRoundTrip ==
    (output.op = "uri_list_to_hdrop" /\ input \in UnreservedUriLists)
        => /\ output.res.ok
           /\ hdrop_to_uri_list(converter, output.res.val) = Ok(input)

\* a list of two different paths made the round trip
C13_Witness ==
    /\ output.op = "uri_list_to_hdrop"
    /\ input = UriList(<< << 47, 97 >>, << 47, 97, 47 >> >>)
    /\ input \in UnreservedUriLists
    /\ output.res.ok
    /\ hdrop_to_uri_list(converter, output.res.val) = Ok(input)

\* some line of text begins with "file://": the prefix stands at the start
\* of the text or right after a line feed
HasFileUriLine(text) ==
    \E i \in 1..(Len(text) - 6) :
        /\ i = 1 \/ text[i - 1] = 10
        /\ SubSeq(text, i, i + 6) = FileScheme

\* the code units of the decoded paths of a URI list, each followed by one
\* null code unit
TerminatedPaths(text) ==
    LET paths == UriPaths(lines(text))
    IN  Concat([i \in 1..Len(paths) |->
                    Append(EncodeUtf16(Chars(percent_decode(paths[i]))), 0)])

\* C18: every buffer returned by a successful uri_list_to_hdrop has bytes
\* [0..4] equal to 20 and bytes [16..20] equal to 1 (little-endian), and
\* after the 20 header bytes every path followed by one null code unit and
\* one more null code unit at the end; uri_list_to_hdrop fails, with
\* FormatConversion, exactly when no line that is not a '#' comment starts
\* with file://.
C18_HdropLayout ==
    output.op = "uri_list_to_hdrop" =>
        /\ output.res.ok =>
               /\ SubSeq(output.res.val, 1, 4) = << 20, 0, 0, 0 >>
               /\ SubSeq(output.res.val, 17, 20) = << 1, 0, 0, 0 >>
               /\ LeBytesToUnits(SubSeq(output.res.val, 21, Len(output.res.val)))
                      = Append(TerminatedPaths(input), 0)
        /\ ~output.res.ok <=> ~HasFileUriLine(input)
        /\ ~output.res.ok => output.res.err = "FormatConversion"

\* a list with a comment line and two escaped URIs has been converted: the
\* buffer holds "/a b", a null, "/e-acute", a null and the final null
C18_Witness ==
    /\ output.op = "uri_list_to_hdrop"
    /\ output.res.ok
    /\ input[1] = 35
    /\ LeBytesToUnits(SubSeq(output.res.val, 21, Len(output.res.val)))
           = << 47, 97, 32, 98, 0, 47, 233, 0, 0 >>

\* C27: cf_html_to_html is total over byte buffers: for every input it
\* returns an error (an encoding error for bytes that are no text,
\* FormatConversion for a missing or unparsable StartFragment or EndFragment
\* line, for start >= end and for end beyond the buffer) or exactly the
\* bytes between the two offsets; it never aborts, also when an offset
\* falls inside a multi-byte character.
C27_CfHtmlTotal ==
    output.op = "cf_html_to_html" =>
        IF output.res.ok
        THEN \E start, end \in 0..Len(input) :
                 /\ start < end
                 /\ output.res.val = SubSeq(input, start + 1, end)
        ELSE /\ output.res.err \in { "InvalidUtf8", "FormatConversion" }
             /\ output.res.err = "InvalidUtf8" <=> ~ValidUtf8(input)

(***************************************************************************)
(* Properties of the image functions (under ImageSpec).                    *)
(***************************************************************************)
\* C14: bitmap round trip: for every RGBA image (of the sizes enumerated,
\* all within 4096 x 4096), parse_dib_to_image of the DIB that
\* create_dib_from_image produced succeeds and returns the same image.
C14_BitmapRoundTrip ==
    (output.op = "create_dib_from_image" /\ input.variant = "ImageRgba8")
        => /\ output.res.ok
           /\ \A overflow_checks \in BOOLEAN :
                 parse_dib_to_image(output.res.val, overflow_checks) = Ok(input)

\* C15: BMP container round trip: for every buffer d on which dib_to_bmp
\* succeeds, the result starts with "BM" and bmp_to_dib of it is Ok(d).
C15_BmpRoundTrip ==
    (output.op = "dib_to_bmp" /\ output.res.ok)
        => /\ SubSeq(output.res.val, 1, 2) = << 66, 77 >>
           /\ bmp_to_dib(output.res.val) = Ok(input)

\* the DIB of a 2 x 2 image went through the container and came back
C15_Witness ==
    /\ output.op = "dib_to_bmp"
    /\ output.res.ok
    /\ \E image \in RgbaImages :
          /\ image.width = 2 /\ image.height = 2
          /\ input = create_dib_from_image(image).val
    /\ Len(output.res.val) = Len(input) + 14
    /\ bmp_to_dib(output.res.val) = Ok(input)

(***************************************************************************)
(* FileDescriptor properties, under DescriptorSpec.                        *)
(***************************************************************************)
\* bit k of the first byte of dwFlags, read from the buffer itself
FlagBitSet(data, k) == (data[1] \div (2 ^ k)) % 2 = 1

RecordAt(data, i) == SubSeq(data, 4 + 592 * i + 1, 4 + 592 * (i + 1))

\* C28: FileDescriptor::parse_list reads the first 4 bytes as a little-endian
\* count; it fails with FormatConversion when the buffer is shorter than 4
\* bytes or than 4 + count * 592 bytes; otherwise it returns exactly count
\* descriptors, descriptor i being parse of bytes [4 + 592 i, 4 + 592 (i + 1)),
\* unless one of these records does not parse, and then the whole list fails.
C28_ParseList ==
    output.op = "parse_list" =>
        IF Len(input) < 4
        THEN ~output.res.ok /\ output.res.err = "FormatConversion"
        ELSE LET count == input[1] + 256 * input[2] + 65536 * input[3]
                              + 16777216 * input[4]
             IN  IF Len(input) < 4 + count * 592
                 THEN ~output.res.ok /\ output.res.err = "FormatConversion"
                 ELSE IF \E i \in 0..(count - 1) : ~parse(RecordAt(input, i)).ok
                 THEN ~output.res.ok
                 ELSE /\ output.res.ok
                      /\ Len(output.res.val) = count
                      /\ \A i \in 0..(count - 1) :
                             output.res.val[i + 1] = parse(RecordAt(input, i)).val

\* a list of two records has been parsed: two descriptors, named "a" and "b"
C28_Witness ==
    /\ output.op = "parse_list"
    /\ output.res.ok
    /\ Len(output.res.val) = 2
    /\ output.res.val[1].name = << 97 >>
    /\ output.res.val[2].name = << 98 >>
    /\ output.res.val[2].creation_time # None

(***************************************************************************)
(* mime_to_rdp_formats properties, under MimeSpec.                         *)
(***************************************************************************)
\* C17: mime_to_rdp_formats returns no duplicate format entries: whatever
\* the list of MIME strings, its order and its repetitions, each
\* ClipboardFormat appears at most once in the returned vector.
C17_NoDuplicateFormats ==
    output.op = "mime_to_rdp_formats" =>
        \A i, j \in 1..Len(output.res.val) :
            i # j => output.res.val[i] # output.res.val[j]

(***************************************************************************)
(* html_to_cf_html on long strings, under LongHtmlSpec.                    *)
(***************************************************************************)
\* the bytes of header after the key, up to the next "\r"
FieldAfter(header, key) ==
    LET at == CHOOSE i \in 1..Len(header) :
                  /\ i + Len(key) - 1 <= Len(header)
                  /\ SubSeq(header, i, i + Len(key) - 1) = key
                  /\ i = 1 \/ header[i - 1] = 10
        rest == SubSeq(header, at + Len(key), Len(header))
    IN  SubSeq(rest, 1, FirstIndex(rest, 13) - 1)

\* C26: in every buffer returned by html_to_cf_html the header has the same
\* length whatever the content, each of the four offset fields is exactly 8
\* decimal digits, StartHTML is the header length, EndHTML the length of the
\* buffer, and [StartFragment, EndFragment) covers exactly the content,
\* after the opening marker and before the closing one.
C26_FixedWidthHeader ==
    (output.op = "html_to_cf_html" /\ output.res.ok) =>
        LET header         == output.res.val.header
            total          == Len(header) + output.res.val.body_len
            start_html     == FieldAfter(header, KeyStartHTML)
            end_html       == FieldAfter(header, KeyEndHTML)
            start_fragment == FieldAfter(header, KeyStartFragment)
            end_fragment   == FieldAfter(header, KeyEndFragment)
        IN  /\ Len(header) = Len(header_template)
            /\ \A f \in { start_html, end_html, start_fragment, end_fragment } :
                   Len(f) = 8 /\ \A i \in 1..Len(f) : IsDecDigit(f[i])
            /\ DecValue(start_html, 0) = Len(header)
            /\ DecValue(end_html, 0) = total
            /\ DecValue(start_fragment, 0) = Len(header) + Len(prefix)
            /\ DecValue(end_fragment, 0) = Len(header) + Len(prefix) + input[1]

(***************************************************************************)
(* More properties of the image functions, under ImageSpec.                *)
(***************************************************************************)
\* the little-endian u32 at bytes [at, at + 4) of b, at counted from 0
U32At(b, at) ==
    b[at + 1] + 256 * b[at + 2] + 65536 * b[at + 3] + 16777216 * b[at + 4]

\* C29: for every DIB that dib_to_bmp accepts, the 14-byte file header it
\* writes holds the file size 14 + DIB length and the pixel-data offset
\* 14 + biSize, the header size the DIB declares, also when biSize is more
\* than 40.
C29_BmpFileHeader ==
    (output.op = "dib_to_bmp" /\ output.res.ok) =>
        /\ U32At(output.res.val, 2) = 14 + Len(input)
        /\ U32At(output.res.val, 10) = 14 + U32At(input, 0)

\* the header fields of a DIB of at least 40 bytes
BiSize(dib) == U32At(dib, 0)

BiWidth(dib) == unsigned_abs(i32_from_le_bytes(SubSeq(dib, 5, 8)))

BiHeightRaw(dib) == i32_from_le_bytes(SubSeq(dib, 9, 12))

BiBitCount(dib) == dib[15] + 256 * dib[16]

\* a DIB whose pixels parse_dib_to_image hands to the 24-bit conversion
Is24BitDib(dib) ==
    /\ Len(dib) >= 40
    /\ BiSize(dib) >= 40
    /\ BiSize(dib) < Len(dib)
    /\ BiBitCount(dib) = 24

\* len < ceil(width * 3 / 4) * 4 * height over the integers, written with
\* divisions: len < s * h iff len \div h < s, q < 4 * c iff q \div 4 < c,
\* k < ceil(a / 4) iff 4 * k < a, and m < 3 * w iff m \div 3 < w
ShorterThanRows(len, width, height) ==
    height >= 1 /\ (4 * ((len \div height) \div 4)) \div 3 < width

\* C30: parse_dib_to_image on a 24-bit DIB fails with ImageDecode when the
\* pixel data is shorter than stride * height, where the stride is
\* ceil(width * 3 / 4) * 4; otherwise it returns an RGB image of exactly
\* width * height pixels in which pixel (x, y) holds the bytes at
\* stride * r + 3 * x of the pixel data in the order 2, 1, 0 (BGR to RGB),
\* r being y when the stored height is negative and height - 1 - y
\* otherwise; the padding of the rows is dropped.
C30_Convert24Bit ==
    (output.op = "parse_dib_to_image" /\ Is24BitDib(input)) =>
        LET pixel_data == SubSeq(input, BiSize(input) + 1, Len(input))
            width      == BiWidth(input)
            height     == unsigned_abs(BiHeightRaw(input))
            stride     == ((width * 3 + 3) \div 4) * 4
            image      == output.res.val
        IN  IF ShorterThanRows(Len(pixel_data), width, height)
            THEN ~output.res.ok /\ output.res.err = "ImageDecode"
            ELSE /\ output.res.ok
                 /\ image.variant = "ImageRgb8"
                 /\ image.width = width
                 /\ image.height = height
                 /\ Len(image.data) = 3 * width * height
                 /\ \A y \in 0..(height - 1) : \A x \in 0..(width - 1) :
                       LET r  == IF BiHeightRaw(input) < 0 THEN y ELSE height - 1 - y
                           at == stride * r + 3 * x
                       IN  SubSeq(image.data, 3 * (y * width + x) + 1,
                                  3 * (y * width + x) + 3)
                               = << pixel_data[at + 3], pixel_data[at + 2],
                                    pixel_data[at + 1] >>

====
